---- MODULE Spec2Model ----
(***************************************************************************)
(* A model of the GCP validation engine: the dependency resolver           *)
(* (resolver.go), the result aggregator (Aggregate), the lazily built      *)
(* service clients of Context (context.go), the executor (ExecuteAll,     *)
(* executeGroup), the entrypoint (main.go), the retry helper of the        *)
(* client factory (retryWithBackoff, client.go), the validator registry    *)
(* and the stamping and rendering of one validator's result.               *)
(*                                                                         *)
(* Validator names are the integers 1..NumValidators; the order of the     *)
(* integers stands for the alphabetical order of the names.                *)
(***************************************************************************)
EXTENDS Integers, Sequences, FiniteSets, TLC

\* ------------------------------------------------------------------ bounds
NumValidators == 3
MaxEdges == 3
MaxResults == 3
NumCallers == 2
MaxCalls == 3

Names == 1..NumValidators

\* ------------------------------------------------------------------- state
VARIABLES
    \* resolver (DependencyResolver)
    validators,     \* key set of DependencyResolver.validators
    runAfter,       \* name -> Metadata().RunAfter, a list of names
    rpc,            \* "meta" while the input is declared, then the position in
                    \* ResolveExecutionGroups: "detect", "assign", "group", "done"
    planLevels,     \* the map assignLevels returned (the local `levels`)
    groups,         \* the plan ResolveExecutionGroups returned
    resolveErr,     \* the error it returned: NoErr, or the edge <<name, dep>> it names
    \* aggregator
    aggInput,       \* the []*Result handed to Aggregate
    aggOut,         \* the *AggregatedResult it returned
    apc,            \* "input" | "done"
    \* Context: the lazily built service clients
    once,           \* kind -> state of the kind's sync.Once: "idle", "running", "done"
    svc,            \* kind -> the Context field: NilHandle, or the handle stored
    constructs,     \* kind -> number of calls of the factory's Create<kind>Service
    cpc,            \* caller -> its position in an accessor call and its local err
    ncalls,         \* number of accessor calls begun
    lastRet,        \* what the accessor call that returned last returned
    \* executor (Executor.ExecuteAll, Executor.executeGroup)
    enabled,        \* the registered validators whose Enabled(ctx) is true
    stopOnFirstFailure, \* Config.StopOnFirstFailure
    epc,            \* position of ExecuteAll: "start", "resolve", "run", "wait", "returned"
    gi,             \* index in groups of the group being executed
    gpc,            \* validator -> position of the goroutine executeGroup started for it
    gres,           \* validator -> the goroutine's local result / recovered panic value
    mu,             \* Executor.mu: NoHolder, or the validator whose goroutine holds it
    slots,          \* per executed group, the results slice of its executeGroup call
    ctxResults,     \* Context.Results
    allResults,     \* the allResults slice of ExecuteAll
    retErr,         \* the error ExecuteAll returned
    panicked,       \* the validators whose goroutine recovered a panic
    \* entrypoint (main)
    mpc,            \* position of main: "off", "start", "run", "exited"
    exitCode,       \* the process exit code, NoExit while the process runs
    cancelled,      \* the cancel token of main.go:66: "no", or when it fired:
                    \* "during" ExecuteAll, "after" ExecuteAll returned
    outFile,        \* the document written to cfg.ResultsPath, NoAggregate if none
    reportErr,      \* what failed when the document was produced: "none",
                    \* "marshal" (json.MarshalIndent) or "write" (os.WriteFile)
    \* retryWithBackoff
    rtpc,           \* "off", "idle", "attempt" (about to call operation), "wait", "done"
    attempt,        \* the loop variable
    backoff,        \* the local backoff, in milliseconds
    lastErr,        \* the local lastErr
    ctxErr,         \* ctx.Err() of the token passed to retryWithBackoff
    retryErr,       \* the error retryWithBackoff returned
    outcomes,       \* what each call of operation returned, in order
    waits,          \* the duration of each time.After started, in order
    \* registry (Registry, globalRegistry)
    regGlobal,      \* TRUE: the global registry, used through the package-level
                    \* Register; FALSE: a registry made by NewRegistry
    registry,       \* Registry.validators: name -> the validator registered
    regCall,        \* the arguments <<name, validator>> of the last call of Register
    regPanic,       \* the value that call panicked with, NoErr if it returned
    listed,         \* the slice the last call of GetAll returned
    \* one validator's result, from Validate to the document
    spc,            \* "off", "start", "running", "returned", "timed", "dated", "named",
                    \* "panicked", "stored", "written"
    smeta,          \* validator.Metadata().Name
    sclock,         \* the reading of the monotonic clock
    sstart,         \* the local start
    sresult,        \* the *Result Validate returned
    sstored,        \* the *Result the goroutine stored
    sdoc,           \* the entry of the result in the marshalled document
    \* one call of APIEnabledValidator.Validate
    vpc,            \* "off", "start", "lookup" (in the loop), "done", "panicked"
    vapis,          \* Config.RequiredAPIs, a list of API names
    vhandle,        \* what GetServiceUsageService returned
    vqueries,       \* what each svc.Services.Get(...).Do() returned, in order
    vresult,        \* the *Result Validate returned
    \* accessor calls on the Context of a run
    xbuilt,         \* who built the Context: "main" (main.go:60) or "NewContext"
    xfactory,       \* Context.clientFactory: "nil" or "set"
    xonce,          \* kind -> state of the kind's sync.Once: "idle", "done"
    xsvc,           \* kind -> the Context field
    xcalls          \* what each accessor call did, in order

resolverVars == <<validators, runAfter, rpc, planLevels, groups, resolveErr>>
aggVars == <<aggInput, aggOut, apc>>
ctxVars == <<once, svc, constructs, cpc, ncalls, lastRet>>
execVars == <<enabled, stopOnFirstFailure, epc, gi, gpc, gres, mu, slots,
              ctxResults, allResults, retErr, panicked>>
mainVars == <<mpc, exitCode, cancelled, outFile, reportErr>>
retryVars == <<rtpc, attempt, backoff, lastErr, ctxErr, retryErr, outcomes, waits>>
regVars == <<regGlobal, registry, regCall, regPanic, listed>>
stampVars == <<spc, smeta, sclock, sstart, sresult, sstored, sdoc>>
apiVars == <<vpc, vapis, vhandle, vqueries, vresult>>
accVars == <<xbuilt, xfactory, xonce, xsvc, xcalls>>
vars == <<resolverVars, aggVars, ctxVars, execVars, mainVars, retryVars, regVars,
          stampVars, apiVars, accVars>>

notResolverVars == <<aggVars, ctxVars, execVars, mainVars, retryVars, regVars, stampVars, apiVars, accVars>>
notAggVars == <<resolverVars, ctxVars, execVars, mainVars, retryVars, regVars, stampVars, apiVars, accVars>>
notCtxVars == <<resolverVars, aggVars, execVars, mainVars, retryVars, regVars, stampVars, apiVars, accVars>>
notExecVars == <<aggVars, ctxVars, mainVars, retryVars, regVars, stampVars, apiVars, accVars>>
notMainVars == <<ctxVars, retryVars, regVars, stampVars, apiVars, accVars>>
notRetryVars == <<resolverVars, aggVars, ctxVars, execVars, mainVars, regVars, stampVars, apiVars, accVars>>
notRegVars == <<resolverVars, aggVars, ctxVars, execVars, mainVars, retryVars, stampVars, apiVars, accVars>>
notApiVars == <<resolverVars, aggVars, ctxVars, execVars, mainVars, retryVars, regVars,
                stampVars, accVars>>
notAccVars == <<resolverVars, aggVars, ctxVars, execVars, mainVars, retryVars, regVars,
                stampVars, apiVars>>
notStampVars == <<resolverVars, aggVars, ctxVars, execVars, mainVars, retryVars, regVars, apiVars, accVars>>

\* ---------------------------------------------------------------- helpers
NoErr == <<>>

RECURSIVE SeqSum(_)
SeqSum(s) == IF s = <<>> THEN 0 ELSE Head(s) + SeqSum(Tail(s))

\* All orders in which a Go map with key set S may be iterated.
Perms(S) == { p \in [1..Cardinality(S) -> S] : \A x \in S : \E i \in DOMAIN p : p[i] = x }

Range(s) == { s[i] : i \in DOMAIN s }

\* ================================================================ resolver

\* resolver.go:122 (and :85): is dep a key of r.validators
existsAlways(V, dep) == TRUE
exists(V, dep) == dep \in V

\* resolver.go:130: the edge closes a cycle when its target is on the DFS path
isAlreadyVisited(st, dep) == dep \in st.visited
isOnRecStack(st, dep) == dep \in st.recStack

\* resolver.go:112-137: dfs, with visited/recStack threaded through as st;
\* st.err is the returned error (NoErr for nil).
RECURSIVE dfs(_, _, _, _)
RECURSIVE dfsDeps(_, _, _, _, _)
dfs(V, RA, name, st) ==
    LET st1 == [st EXCEPT !.visited = @ \cup {name}, !.recStack = @ \cup {name}]
        st2 == dfsDeps(V, RA, name, 1, st1)
    IN  IF st2.err # NoErr THEN st2
        ELSE [st2 EXCEPT !.recStack = @ \ {name}]

\* resolver.go:120-133: the loop over meta.RunAfter, from index i on
dfsDeps(V, RA, name, i, st) ==
    IF i > Len(RA[name]) THEN st
    ELSE LET dep == RA[name][i] IN
         IF ~exists(V, dep) THEN dfsDeps(V, RA, name, i + 1, st)
         ELSE IF dep \notin st.visited
              THEN LET s2 == dfs(V, RA, dep, st) IN
                   IF s2.err # NoErr THEN s2
                   ELSE dfsDeps(V, RA, name, i + 1, s2)
         ELSE IF isOnRecStack(st, dep)
              THEN [st EXCEPT !.err = <<name, dep>>]
         ELSE dfsDeps(V, RA, name, i + 1, st)

\* resolver.go:139-147: the loop over r.validators, in map order `order`
RECURSIVE detectLoop(_, _, _, _, _)
detectLoop(V, RA, order, i, st) ==
    IF i > Len(order) THEN st
    ELSE IF order[i] \notin st.visited
         THEN LET s2 == dfs(V, RA, order[i], st) IN
              IF s2.err # NoErr THEN s2
              ELSE detectLoop(V, RA, order, i + 1, s2)
    ELSE detectLoop(V, RA, order, i + 1, st)

\* resolver.go:107-148
detectCycles(V, RA, order) ==
    detectLoop(V, RA, order, 1, [visited |-> {}, recStack |-> {}, err |-> NoErr]).err

\* resolver.go:87-89: keep the larger of depLevel and maxDepLevel
maxDepLevelLast(depLevel, maxDepLevel) == depLevel
maxDepLevelOf(depLevel, maxDepLevel) ==
    IF depLevel > maxDepLevel THEN depLevel ELSE maxDepLevel

\* resolver.go:74-97: calcLevel, with the memo table `levels` threaded through;
\* the value is the table after the call (the level of name is levels[name]).
\* resolver.go:93-94: level := maxDepLevel + 1
levelTwoAbove(maxDepLevel) == maxDepLevel + 2
levelAbove(maxDepLevel) == maxDepLevel + 1

RECURSIVE calcLevel(_, _, _, _)
RECURSIVE calcDeps(_, _, _, _, _, _)
calcLevel(V, RA, name, levels) ==
    IF name \in DOMAIN levels THEN levels
    ELSE LET r == calcDeps(V, RA, name, 1, levels, -1)
         IN  (name :> levelAbove(r.maxDepLevel)) @@ r.levels

\* resolver.go:82-91: the loop over meta.RunAfter, from index i on
calcDeps(V, RA, name, i, levels, maxDepLevel) ==
    IF i > Len(RA[name]) THEN [levels |-> levels, maxDepLevel |-> maxDepLevel]
    ELSE LET dep == RA[name][i] IN
         IF exists(V, dep)
         THEN LET l2 == calcLevel(V, RA, dep, levels) IN
              calcDeps(V, RA, name, i + 1, l2, maxDepLevelOf(l2[dep], maxDepLevel))
         ELSE calcDeps(V, RA, name, i + 1, levels, maxDepLevel)

\* resolver.go:99-101: the loop over r.validators, in map order `order`
RECURSIVE assignLoop(_, _, _, _, _)
assignLoop(V, RA, order, i, levels) ==
    IF i > Len(order) THEN levels
    ELSE assignLoop(V, RA, order, i + 1, calcLevel(V, RA, order[i], levels))

\* resolver.go:69-104
assignLevels(V, RA, order) == assignLoop(V, RA, order, 1, <<>>)

\* resolver.go:55-57: sort.Slice by name, ascending
insertFirst(s, x) == <<x>> \o s
RECURSIVE insertSorted(_, _)
insertSorted(s, x) ==
    IF s = <<>> THEN <<x>>
    ELSE IF x < Head(s) THEN <<x>> \o s
    ELSE <<Head(s)>> \o insertSorted(Tail(s), x)

keepMapOrder(s) == s
RECURSIVE sortSlice(_)
sortSlice(s) == IF s = <<>> THEN <<>> ELSE insertSorted(sortSlice(Tail(s)), Head(s))

\* resolver.go:43-49: the validators of one level, collected in map order
collectLevel(order, levels, level) ==
    SelectSeq(order, LAMBDA n : levels[n] = level)

\* resolver.go:42-63: the grouping loop from `level` on, stopping at the
\* first level that has no validator
RECURSIVE groupLoop(_, _, _)
groupLoop(order, levels, level) ==
    LET vs == collectLevel(order, levels, level) IN
    IF Len(vs) = 0 THEN <<>>
    ELSE <<[Level |-> level, Validators |-> sortSlice(vs)]>>
         \o groupLoop(order, levels, level + 1)

\* resolver.go:31-66. order1, order2, order3 are the map orders of the three
\* loops over r.validators (Go randomises each of them).
ResolveExecutionGroups(V, RA, order1, order2, order3) ==
    LET err == detectCycles(V, RA, order1) IN
    IF err # NoErr THEN [groups |-> <<>>, err |-> err]
    ELSE [groups |-> groupLoop(order3, assignLevels(V, RA, order2), 0),
          err |-> NoErr]

\* total number of run_after entries of the input
numEdges(V, RA) == SeqSum([i \in 1..NumValidators |-> IF i \in V THEN Len(RA[i]) ELSE 0])

\* resolver.go:20-27: the resolver holds the given validators by name
NewDependencyResolver(V) ==
    /\ validators = V
    /\ runAfter = [n \in Names |-> <<>>]
    /\ rpc = "meta"
    /\ planLevels = <<>>
    /\ groups = <<>>
    /\ resolveErr = NoErr

ResolverIdle ==
    /\ validators = {}
    /\ runAfter = [n \in Names |-> <<>>]
    /\ rpc = "off"
    /\ planLevels = <<>>
    /\ groups = <<>>
    /\ resolveErr = NoErr

\* An input validator's metadata lists one more name in RunAfter
\* (part_008:15; the name may be that of a validator not given to the resolver).
AddRunAfter(a, b) ==
    /\ rpc = "meta"
    /\ a \in validators \cup enabled
    /\ numEdges(validators \cup enabled, runAfter) < MaxEdges
    /\ runAfter' = [runAfter EXCEPT ![a] = Append(@, b)]
    /\ UNCHANGED <<validators, rpc, planLevels, groups, resolveErr>>
    /\ UNCHANGED notResolverVars

\* resolver.go:31: ResolveExecutionGroups is called on the resolver
CallResolve ==
    /\ rpc = "meta"
    /\ epc = "off"
    /\ rpc' = "detect"
    /\ UNCHANGED <<validators, runAfter, planLevels, groups, resolveErr>>
    /\ UNCHANGED notResolverVars

\* resolver.go:32-35: step 1 of ResolveExecutionGroups; on a cycle the call
\* returns (nil, err)
DetectCycles ==
    /\ rpc = "detect"
    /\ \E order \in Perms(validators) :
         LET err == detectCycles(validators, runAfter, order) IN
         /\ resolveErr' = err
         /\ rpc' = IF err # NoErr THEN "done" ELSE "assign"
    /\ UNCHANGED <<validators, runAfter, planLevels, groups>>
    /\ UNCHANGED notResolverVars

\* resolver.go:37-38: step 2
AssignLevels ==
    /\ rpc = "assign"
    /\ \E order \in Perms(validators) :
         planLevels' = assignLevels(validators, runAfter, order)
    /\ rpc' = "group"
    /\ UNCHANGED <<validators, runAfter, groups, resolveErr>>
    /\ UNCHANGED notResolverVars

\* resolver.go:40-65: step 3, and the return of (groups, nil)
GroupByLevel ==
    /\ rpc = "group"
    /\ \E order \in Perms(validators) :
         groups' = groupLoop(order, planLevels, 0)
    /\ rpc' = "done"
    /\ UNCHANGED <<validators, runAfter, planLevels, resolveErr>>
    /\ UNCHANGED notResolverVars

\* ============================================================== aggregator

\* part_008:34-38
StatusSuccess == "success"
StatusFailure == "failure"
StatusSkipped == "skipped"
Statuses == {StatusSuccess, StatusFailure, StatusSkipped}

\* part_008:41-49: the fields of Result the engine reads (Message, Details,
\* Duration and Timestamp are carried along untouched by Aggregate)
Result(name, status, reason) ==
    [ValidatorName |-> name, Status |-> status, Reason |-> reason]

\* part_008:68-70: a result adds to checksPassed
countsAsPassedOrSkipped(r) == r.Status \in {StatusSuccess, StatusSkipped}
countsAsPassed(r) == r.Status = StatusSuccess

\* part_008:71-73: a result adds to failedChecks and failureDescriptions
countsAsFailed(r) == r.Status = StatusFailure

\* part_008:61-75: the single pass over results
RECURSIVE aggregateLoop(_, _, _)
aggregateLoop(results, i, acc) ==
    IF i > Len(results) THEN acc
    ELSE LET r == results[i] IN
         aggregateLoop(results, i + 1,
            IF countsAsPassed(r)
            THEN [acc EXCEPT !.checksPassed = @ + 1]
            ELSE IF countsAsFailed(r)
            THEN [acc EXCEPT !.failedChecks = Append(@, r.ValidatorName),
                             !.failureDescriptions = Append(@, <<r.ValidatorName, r.Reason>>)]
            ELSE acc)

\* part_008:84: the aggregate is a success
allPassed(checksPassed, checksRun) == checksPassed = checksRun

\* part_008:60-108. Details is the Go map: the key failed_checks is in its
\* domain only on the failure path. Message is kept structured: the count,
\* the "<name> (<reason>)" items, and the pass ratio.
Aggregate(results) ==
    LET checksRun == Len(results)
        acc == aggregateLoop(results, 1,
                 [checksPassed |-> 0, failedChecks |-> <<>>, failureDescriptions |-> <<>>])
        details == [checks_run |-> checksRun,
                    checks_passed |-> acc.checksPassed,
                    validators |-> results]
    IN  IF allPassed(acc.checksPassed, checksRun)
        THEN [Status |-> StatusSuccess,
              Reason |-> "ValidationPassed",
              Message |-> <<"All GCP validation checks passed successfully">>,
              Details |-> details]
        ELSE [Status |-> StatusFailure,
              Reason |-> "ValidationFailed",
              Message |-> <<Len(acc.failureDescriptions), acc.failureDescriptions,
                            acc.checksPassed, checksRun>>,
              Details |-> ("failed_checks" :> acc.failedChecks) @@ details]

NoAggregate == [Status |-> "none"]

AggregatorIdle ==
    /\ aggInput = <<>>
    /\ aggOut = NoAggregate
    /\ apc = "off"

AggregatorInit ==
    /\ aggInput = <<>>
    /\ aggOut = NoAggregate
    /\ apc = "input"

\* the reason a validator gives with a status (free text in the code)
ReasonOf(status) ==
    CASE status = StatusSuccess -> "OK"
      [] status = StatusFailure -> "CheckFailed"
      [] OTHER -> "NotApplicable"

\* The caller's list grows by one result (main.go:81-88: any list of results)
AppendResult(name, status) ==
    /\ apc = "input"
    /\ Len(aggInput) < MaxResults
    /\ aggInput' = Append(aggInput, Result(name, status, ReasonOf(status)))
    /\ UNCHANGED <<aggOut, apc>>
    /\ UNCHANGED notAggVars

\* part_008:60-108, one call
DoAggregate ==
    /\ apc = "input"
    /\ aggOut' = Aggregate(aggInput)
    /\ apc' = "done"
    /\ UNCHANGED aggInput
    /\ UNCHANGED notAggVars

\* ================================================================= context

\* context.go:152-156 and 161-165: the service kinds with a lazy accessor.
\* The five accessors are the same code over different fields; two kinds
\* are carried.
Kinds == {"compute", "serviceUsage"}

\* goroutines calling the accessors (validators of one execution group)
Callers == 1..NumCallers

\* a nil *Service
NilHandle == 0

CallerIdle == [pc |-> "idle", kind |-> "none", err |-> FALSE, ran |-> FALSE]
NoReturn == [caller |-> 0, kind |-> "none", handle |-> NilHandle, err |-> FALSE, ran |-> FALSE]

\* context.go:175-181: NewContext leaves every client nil and every Once unused
NewContext ==
    /\ once = [k \in Kinds |-> "idle"]
    /\ svc = [k \in Kinds |-> NilHandle]
    /\ constructs = [k \in Kinds |-> 0]
    /\ cpc = [c \in Callers |-> CallerIdle]
    /\ ncalls = 0
    /\ lastRet = NoReturn

ContextIdle ==
    /\ once = [k \in Kinds |-> "off"]
    /\ svc = [k \in Kinds |-> NilHandle]
    /\ constructs = [k \in Kinds |-> 0]
    /\ cpc = [c \in Callers |-> CallerIdle]
    /\ ncalls = 0
    /\ lastRet = NoReturn

\* context.go:186-187 (and 203, 220, 237, 254): a goroutine calls the
\* accessor of kind k; its local err starts nil
GetService_Call(c, k) ==
    /\ cpc[c].pc = "idle"
    /\ ncalls < MaxCalls
    /\ cpc' = [cpc EXCEPT ![c] = [pc |-> "do", kind |-> k, err |-> FALSE, ran |-> FALSE]]
    /\ ncalls' = ncalls + 1
    /\ UNCHANGED <<once, svc, constructs, lastRet>>
    /\ UNCHANGED notCtxVars

\* context.go:188: sync.Once.Do runs the function only for the first caller
onceRunsAlways(k) == once[k] # "running"
onceRuns(k) == once[k] = "idle"

\* context.go:188: c.<kind>Once.Do(f), the Once is unused: this caller runs f
Once_Run(c) ==
    /\ cpc[c].pc = "do"
    /\ onceRuns(cpc[c].kind)
    /\ once' = [once EXCEPT ![cpc[c].kind] = "running"]
    /\ cpc' = [cpc EXCEPT ![c].pc = "inF", ![c].ran = TRUE]
    /\ UNCHANGED <<svc, constructs, ncalls, lastRet>>
    /\ UNCHANGED notCtxVars

\* context.go:188: c.<kind>Once.Do(f), f has completed: Do returns without
\* running it. While f is running in another goroutine Do blocks.
Once_Skip(c) ==
    /\ cpc[c].pc = "do"
    /\ once[cpc[c].kind] = "done"
    /\ cpc' = [cpc EXCEPT ![c].pc = "afterDo"]
    /\ UNCHANGED <<once, svc, constructs, ncalls, lastRet>>
    /\ UNCHANGED notCtxVars

\* context.go:189-192: the function given to Do. The factory returns
\* (handle, nil) or (nil, err) (client.go:103-123); both values are assigned,
\* the first to the Context field, the second to this call's local err.
Create(c, ok) ==
    /\ cpc[c].pc = "inF"
    /\ LET k == cpc[c].kind IN
       /\ constructs' = [constructs EXCEPT ![k] = @ + 1]
       /\ svc' = [svc EXCEPT ![k] = IF ok THEN constructs[k] + 1 ELSE NilHandle]
       /\ once' = [once EXCEPT ![k] = "done"]
    /\ cpc' = [cpc EXCEPT ![c].pc = "afterDo", ![c].err = ~ok]
    /\ UNCHANGED <<ncalls, lastRet>>
    /\ UNCHANGED notCtxVars

\* context.go:194-197: what the accessor returns, from the local err and the field
accessorResult(err, field) ==
    IF err THEN [handle |-> NilHandle, err |-> TRUE]
    ELSE [handle |-> field, err |-> FALSE]

\* context.go:194-197
GetService_Return(c) ==
    /\ cpc[c].pc = "afterDo"
    /\ LET r == accessorResult(cpc[c].err, svc[cpc[c].kind]) IN
       lastRet' = [caller |-> c, kind |-> cpc[c].kind, handle |-> r.handle,
                   err |-> r.err, ran |-> cpc[c].ran]
    /\ cpc' = [cpc EXCEPT ![c] = CallerIdle]
    /\ UNCHANGED <<once, svc, constructs, ncalls>>
    /\ UNCHANGED notCtxVars

\* =============================================================== executor

\* a nil *Result
NilResult == [ValidatorName |-> 0, Status |-> "nil", Reason |-> ""]

\* an unlocked sync.Mutex
NoHolder == 0

\* part_005:109-121: the result the recover handler builds
panicResultWrongReason(name) == Result(name, StatusFailure, ReasonOf(StatusFailure))
panicResult(name) == Result(name, StatusFailure, "ValidatorPanic")

\* part_005:75-82: a result of the group has status failure and
\* StopOnFirstFailure is set
stopsNever(stop, groupResults) == FALSE
stopsAfter(stop, groupResults) ==
    stop /\ \E i \in DOMAIN groupResults : groupResults[i].Status = StatusFailure

\* part_005:72: allResults = append(allResults, groupResults...)
keepLastGroup(all, groupResults) == groupResults
appendResults(all, groupResults) == all \o groupResults

\* part_005:170: wg.Wait returns when every goroutine of the group has
\* called wg.Done
waitsForNone(group) == TRUE
waitReturns(group) == \A i \in DOMAIN group.Validators : gpc[group.Validators[i]] = "done"

\* part_005:93-94 and 145: the goroutine's `index`, the position of
\* validator v in group.Validators, is the slot it writes
indexFromEnd(group, v) ==
    Len(group.Validators) + 1 - (CHOOSE i \in DOMAIN group.Validators : group.Validators[i] = v)
indexOf(group, v) == CHOOSE i \in DOMAIN group.Validators : group.Validators[i] = v

\* part_005:142 and 125: e.ctx.Results[meta.Name] = result
storeNothing(results, name, result) == results
storeOnly(results, name, result) == (name :> result)
storeResult(results, name, result) == (name :> result) @@ results

\* part_005:43: len(enabledValidators) == 0
noneEnabledAlways(E) == TRUE
noneEnabled(E) == E = {}

\* part_005:52: err != nil after ResolveExecutionGroups
resolutionFailedNever(err) == FALSE
resolutionFailed(err) == err # NoErr

\* the index in groups of the group validator v was started for
groupOf(v) == CHOOSE g \in DOMAIN groups : v \in Range(groups[g].Validators)

ExecutorIdle ==
    /\ enabled = {}
    /\ stopOnFirstFailure = FALSE
    /\ epc = "off"
    /\ gi = 0
    /\ gpc = [v \in Names |-> "idle"]
    /\ gres = [v \in Names |-> NilResult]
    /\ mu = NoHolder
    /\ slots = <<>>
    /\ ctxResults = <<>>
    /\ allResults = <<>>
    /\ retErr = NoErr
    /\ panicked = {}

\* part_005:20-25 and context.go:175-181: an executor over a fresh Context,
\* with E the validators that are enabled and stop the configured flag
NewExecutor(E, stop) ==
    /\ enabled = E
    /\ stopOnFirstFailure = stop
    /\ epc = "start"
    /\ gi = 0
    /\ gpc = [v \in Names |-> "idle"]
    /\ gres = [v \in Names |-> NilResult]
    /\ mu = NoHolder
    /\ slots = <<>>
    /\ ctxResults = <<>>
    /\ allResults = <<>>
    /\ retErr = NoErr
    /\ panicked = {}

\* part_005:33-41: the validators of the list whose Enabled returns true
filterNone(all, E) == all
filterEnabled(all, E) == all \cap E

\* part_005:28-51: the enabled validators are filtered; with none the call
\* returns (nil, "no validators enabled"), else the resolver is built over
\* them and asked for the plan
ExecuteAll_Begin ==
    /\ epc = "start"
    /\ rpc = "meta"
    /\ IF noneEnabled(enabled)
       THEN /\ retErr' = <<"no validators enabled">>
            /\ epc' = "returned"
            /\ UNCHANGED <<validators, rpc>>
       ELSE /\ validators' = filterEnabled(Names, enabled)
            /\ rpc' = "detect"
            /\ epc' = "resolve"
            /\ UNCHANGED retErr
    /\ UNCHANGED <<runAfter, planLevels, groups, resolveErr>>
    /\ UNCHANGED <<enabled, stopOnFirstFailure, gi, gpc, gres, mu, slots,
                   ctxResults, allResults, panicked>>
    /\ UNCHANGED notExecVars

\* part_005:51-65: ResolveExecutionGroups has returned; on an error the call
\* returns (nil, "dependency resolution failed: ..."), else the loop over the
\* groups starts with an empty allResults. The resolver is a local that is
\* not used again, and the executor reads no RunAfter: both are dropped.
ExecuteAll_Resolved ==
    /\ epc = "resolve"
    /\ rpc = "done"
    /\ IF resolutionFailed(resolveErr)
       THEN /\ retErr' = <<"dependency resolution failed", resolveErr>>
            /\ epc' = "returned"
            /\ gi' = gi
       ELSE /\ epc' = "run"
            /\ gi' = 1
            /\ UNCHANGED retErr
    /\ validators' = {}
    /\ runAfter' = [n \in Names |-> <<>>]
    /\ planLevels' = <<>>
    /\ rpc' = "off"
    /\ UNCHANGED <<groups, resolveErr>>
    /\ UNCHANGED <<enabled, stopOnFirstFailure, gpc, gres, mu, slots,
                   ctxResults, allResults, panicked>>
    /\ UNCHANGED notExecVars

\* part_005:66-71 and 89-168: the next group is handed to executeGroup, which
\* makes the results slice and starts one goroutine per validator
executeGroup_Spawn ==
    /\ epc = "run"
    /\ gi <= Len(groups)
    /\ slots' = Append(slots, [i \in DOMAIN groups[gi].Validators |-> NilResult])
    /\ gpc' = [v \in Names |->
                 IF v \in Range(groups[gi].Validators) THEN "spawned" ELSE gpc[v]]
    /\ epc' = "wait"
    /\ UNCHANGED <<enabled, stopOnFirstFailure, gi, gres, mu, ctxResults,
                   allResults, retErr, panicked>>
    /\ UNCHANGED <<resolverVars, notExecVars>>

\* part_005:94-95: `go func(...)` starts the goroutine of v, which runs
\* whatever the goroutines of the other validators of the group are doing
startsAfterSiblings(v) ==
    /\ gpc[v] = "spawned"
    /\ \A w \in Names : w < v => gpc[w] \in {"idle", "done"}
goStarted(v) == gpc[v] = "spawned"

\* part_005:131-135: the goroutine calls validator.Validate
CallValidate(v) ==
    /\ goStarted(v)
    /\ gpc' = [gpc EXCEPT ![v] = "validating"]
    /\ UNCHANGED <<enabled, stopOnFirstFailure, epc, gi, gres, mu, slots,
                   ctxResults, allResults, retErr, panicked>>
    /\ UNCHANGED <<resolverVars, notExecVars>>

\* part_005:135-138: Validate returns a result; duration, timestamp and the
\* metadata name are stamped on it
ValidateReturns(v, status) ==
    /\ gpc[v] = "validating"
    /\ gres' = [gres EXCEPT ![v] = Result(v, status, ReasonOf(status))]
    /\ gpc' = [gpc EXCEPT ![v] = "returned"]
    /\ UNCHANGED <<enabled, stopOnFirstFailure, epc, gi, mu, slots,
                   ctxResults, allResults, retErr, panicked>>
    /\ UNCHANGED <<resolverVars, notExecVars>>

\* part_005:135 and 99-100: Validate panics, or returns nil so that
\* result.Duration = ... (line 136) panics; the deferred function recovers
ValidatePanics(v, value) ==
    /\ gpc[v] = "validating"
    /\ gres' = [gres EXCEPT ![v] = [NilResult EXCEPT !.Reason = value]]
    /\ gpc' = [gpc EXCEPT ![v] = "recovered"]
    /\ panicked' = panicked \cup {v}
    /\ UNCHANGED <<enabled, stopOnFirstFailure, epc, gi, mu, slots,
                   ctxResults, allResults, retErr>>
    /\ UNCHANGED <<resolverVars, notExecVars>>

\* part_005:136: result.Duration = ... dereferences result, which panics
\* when Validate returned nil
stampNeverPanics(result) == FALSE
stampPanicsOnNil(result) == result = NilResult

\* part_005:135-136 and 99-100: Validate returns nil; the assignment to
\* result.Duration panics and the deferred function recovers
ValidateReturnsNil(v) ==
    /\ gpc[v] = "validating"
    /\ IF stampPanicsOnNil(NilResult)
       THEN /\ gres' = [gres EXCEPT ![v] = [NilResult EXCEPT !.Reason = "nil pointer dereference"]]
            /\ gpc' = [gpc EXCEPT ![v] = "recovered"]
            /\ panicked' = panicked \cup {v}
       ELSE /\ gres' = [gres EXCEPT ![v] = NilResult]
            /\ gpc' = [gpc EXCEPT ![v] = "returned"]
            /\ UNCHANGED panicked
    /\ UNCHANGED <<enabled, stopOnFirstFailure, epc, gi, mu, slots,
                   ctxResults, allResults, retErr>>
    /\ UNCHANGED <<resolverVars, notExecVars>>

\* part_005:141-142: e.mu.Lock(); e.ctx.Results[meta.Name] = result
LockAndStore(v) ==
    /\ gpc[v] = "returned"
    /\ mu = NoHolder
    /\ mu' = v
    /\ ctxResults' = storeResult(ctxResults, v, gres[v])
    /\ gpc' = [gpc EXCEPT ![v] = "locked"]
    /\ UNCHANGED <<enabled, stopOnFirstFailure, epc, gi, gres, slots,
                   allResults, retErr, panicked>>
    /\ UNCHANGED <<resolverVars, notExecVars>>

\* part_005:143 and 127: e.mu.Unlock() leaves the mutex free
keepMutex(holder) == holder
releaseMutex(holder) == NoHolder

\* part_005:143: e.mu.Unlock()
Unlock(v) ==
    /\ gpc[v] = "locked"
    /\ mu' = releaseMutex(mu)
    /\ gpc' = [gpc EXCEPT ![v] = "unlocked"]
    /\ UNCHANGED <<enabled, stopOnFirstFailure, epc, gi, gres, slots,
                   ctxResults, allResults, retErr, panicked>>
    /\ UNCHANGED <<resolverVars, notExecVars>>

\* part_005:145-166 and 96: results[index] = result, the log record, wg.Done
StoreSlotAndDone(v) ==
    /\ gpc[v] = "unlocked"
    /\ LET g == groupOf(v) IN
       slots' = [slots EXCEPT ![g][indexOf(groups[g], v)] = gres[v]]
    /\ gres' = [gres EXCEPT ![v] = NilResult]
    /\ gpc' = [gpc EXCEPT ![v] = "done"]
    /\ UNCHANGED <<enabled, stopOnFirstFailure, epc, gi, mu, ctxResults,
                   allResults, retErr, panicked>>
    /\ UNCHANGED <<resolverVars, notExecVars>>

\* part_005:100-126: the recover handler builds the panic result, locks and
\* stores it in Context.Results and in results[index]
RecoverLockAndStore(v) ==
    /\ gpc[v] = "recovered"
    /\ mu = NoHolder
    /\ mu' = v
    /\ ctxResults' = storeResult(ctxResults, v, panicResult(v))
    /\ LET g == groupOf(v) IN
       slots' = [slots EXCEPT ![g][indexOf(groups[g], v)] = panicResult(v)]
    /\ gpc' = [gpc EXCEPT ![v] = "plocked"]
    /\ UNCHANGED <<enabled, stopOnFirstFailure, epc, gi, gres, allResults,
                   retErr, panicked>>
    /\ UNCHANGED <<resolverVars, notExecVars>>

\* part_005:127-129: e.mu.Unlock() in the recover handler, which then
\* returns (the recovered value is gone with it)
RecoverUnlock(v) ==
    /\ gpc[v] = "plocked"
    /\ mu' = releaseMutex(mu)
    /\ gres' = [gres EXCEPT ![v] = NilResult]
    /\ gpc' = [gpc EXCEPT ![v] = "punlocked"]
    /\ UNCHANGED <<enabled, stopOnFirstFailure, epc, gi, slots, ctxResults,
                   allResults, retErr, panicked>>
    /\ UNCHANGED <<resolverVars, notExecVars>>

\* part_005:96: the deferred wg.Done() runs after the recover handler
RecoverDone(v) ==
    /\ gpc[v] = "punlocked"
    /\ gpc' = [gpc EXCEPT ![v] = "done"]
    /\ UNCHANGED <<enabled, stopOnFirstFailure, epc, gi, gres, mu, slots,
                   ctxResults, allResults, retErr, panicked>>
    /\ UNCHANGED <<resolverVars, notExecVars>>

\* part_005:170-171 and 71-83: wg.Wait returns, the group's results are
\* appended to allResults, and with StopOnFirstFailure and a failure in the
\* group ExecuteAll returns (allResults, nil); else the loop goes on
executeGroup_Return ==
    /\ epc = "wait"
    /\ waitReturns(groups[gi])
    /\ allResults' = appendResults(allResults, slots[gi])
    /\ IF stopsAfter(stopOnFirstFailure, slots[gi])
       THEN /\ epc' = "returned"
            /\ gi' = gi
       ELSE /\ epc' = "run"
            /\ gi' = gi + 1
    /\ UNCHANGED <<enabled, stopOnFirstFailure, gpc, gres, mu, slots,
                   ctxResults, retErr, panicked>>
    /\ UNCHANGED <<resolverVars, notExecVars>>

\* part_005:85: the loop over the groups has ended: return (allResults, nil)
ExecuteAll_Return ==
    /\ epc = "run"
    /\ gi > Len(groups)
    /\ epc' = "returned"
    /\ UNCHANGED <<enabled, stopOnFirstFailure, gi, gpc, gres, mu, slots,
                   ctxResults, allResults, retErr, panicked>>
    /\ UNCHANGED <<resolverVars, notExecVars>>

\* the values a validator may panic with: its own, or the runtime error of
\* the nil dereference at part_005:136
PanicValues == {"boom", "nil pointer dereference"}

\* ============================================ validators using the Context

\* part_010:62-71: a validator calls an accessor of the Context from inside
\* its Validate
insideAnything(v) == TRUE
insideValidate(v) == gpc[v] = "validating"

\* part_010:71-92: Validate goes on once the accessor has returned
accessorReturned(v) == v \in Callers => cpc[v].pc = "idle"

\* part_010:71: vctx.GetServiceUsageService(ctx) (or another accessor) is
\* called by validator v
Validate_GetService(v, k) ==
    /\ insideValidate(v)
    /\ GetService_Call(v, k)

\* part_010:72-92 and part_005:135: Validate of v returns its result
Validate_Returns(v, status) ==
    /\ accessorReturned(v)
    /\ ValidateReturns(v, status)

\* ============================================================== entrypoint

\* the process has not exited
NoExit == -1

MainIdle ==
    /\ mpc = "off"
    /\ exitCode = NoExit
    /\ cancelled = "no"
    /\ outFile = NoAggregate
    /\ reportErr = "none"

\* main.go:26: the process at the entry of main
MainStart ==
    /\ mpc = "start"
    /\ exitCode = NoExit
    /\ cancelled = "no"
    /\ outFile = NoAggregate
    /\ reportErr = "none"

\* main.go:117-123: exit 1 if the aggregate status is failure, else fall off
\* the end of main (exit 0)
exitsZeroAlways(status) == 0
exitCodeOf(status) == IF status = StatusFailure THEN 1 ELSE 0

\* main.go:28-32: config.LoadFromEnv fails: log and os.Exit(1)
Main_ConfigError ==
    /\ mpc = "start"
    /\ mpc' = "exited"
    /\ exitCode' = 1
    /\ UNCHANGED <<cancelled, outFile, reportErr>>
    /\ UNCHANGED <<resolverVars, aggVars, execVars, notMainVars>>

\* main.go:28-79: the configuration is loaded (E are the registered
\* validators it leaves enabled, stop its StopOnFirstFailure), the Context
\* with an empty Results map is built, the token with the global timeout
\* and the signal handler are set up, and the executor is constructed
Main_Setup(E, stop) ==
    /\ mpc = "start"
    /\ mpc' = "run"
    /\ enabled' = E
    /\ stopOnFirstFailure' = stop
    /\ epc' = "start"
    /\ rpc' = "meta"
    /\ UNCHANGED <<exitCode, cancelled, outFile, reportErr>>
    /\ UNCHANGED <<validators, runAfter, planLevels, groups, resolveErr>>
    /\ UNCHANGED <<gi, gpc, gres, mu, slots, ctxResults, allResults, retErr, panicked>>
    /\ UNCHANGED <<aggVars, notMainVars>>

\* main.go:66 and 72-76: the token fires, because the global timeout
\* expires or because the signal handler calls cancel(). Neither main nor
\* ExecuteAll reads the token; the validators receive it (part_005:135).
CancelRun ==
    /\ mpc = "run"
    /\ cancelled = "no"
    /\ cancelled' = IF epc = "returned" THEN "after" ELSE "during"
    /\ UNCHANGED <<mpc, exitCode, outFile, reportErr>>
    /\ UNCHANGED <<resolverVars, aggVars, execVars, notMainVars>>

\* main.go:81-85: ExecuteAll returned an error: log and os.Exit(1)
Main_OrchestrationError ==
    /\ mpc = "run"
    /\ epc = "returned"
    /\ retErr # NoErr
    /\ mpc' = "exited"
    /\ exitCode' = 1
    /\ UNCHANGED <<cancelled, outFile, reportErr>>
    /\ UNCHANGED <<resolverVars, aggVars, execVars, notMainVars>>

\* main.go:94-105: the document at the results path after the call of
\* os.WriteFile, which is reached when the marshalling succeeded, whatever
\* the aggregate status
documentOnSuccessOnly(aggregated, marshalOK, writeOK) ==
    IF marshalOK /\ writeOK /\ aggregated.Status = StatusSuccess
    THEN aggregated ELSE NoAggregate
documentWritten(aggregated, marshalOK, writeOK) ==
    IF marshalOK /\ writeOK THEN aggregated ELSE NoAggregate

\* main.go:81-123: ExecuteAll returned results: they are aggregated, the
\* aggregate is marshalled and written to the results path (either may
\* fail: os.Exit(1)), and the exit code follows the aggregate status
Main_Report(marshalOK, writeOK) ==
    /\ mpc = "run"
    /\ epc = "returned"
    /\ retErr = NoErr
    /\ LET aggregated == Aggregate(allResults) IN
       /\ aggInput' = allResults
       /\ aggOut' = aggregated
       /\ apc' = "done"
       /\ outFile' = documentWritten(aggregated, marshalOK, writeOK)
       /\ reportErr' = IF ~marshalOK THEN "marshal"
                       ELSE IF ~writeOK THEN "write" ELSE "none"
       /\ exitCode' = IF marshalOK /\ writeOK THEN exitCodeOf(aggregated.Status) ELSE 1
    /\ mpc' = "exited"
    /\ UNCHANGED cancelled
    /\ UNCHANGED <<resolverVars, execVars, notMainVars>>

\* =================================================================== retry

\* client.go:20-30, durations in milliseconds
initialBackoff == 100
maxBackoff == 30000
maxRetries == 5
statusRateLimited == 429
statusServiceUnavail == 503
statusInternalError == 500

\* Error values: text is the error's own text, code the HTTP code of a
\* *googleapi.Error (0 otherwise), wraps the text of the error it wraps.
NilErr == [text |-> "nil", code |-> 0, wraps |-> ""]
apiError(code) == [text |-> "googleapi.Error", code |-> code, wraps |-> ""]
\* an error that is not a *googleapi.Error (network, transport, context)
NetErr == [text |-> "network error", code |-> 0, wraps |-> ""]
\* the values of ctx.Err() once the token has fired
Canceled == [text |-> "context canceled", code |-> 0, wraps |-> ""]
DeadlineExceeded == [text |-> "context deadline exceeded", code |-> 0, wraps |-> ""]
\* fmt.Errorf(msg + ": %w", e)
wrapErr(msg, e) == [text |-> msg, code |-> e.code, wraps |-> e.text]

\* the HTTP codes the operation is made to fail with
ApiCodes == {statusRateLimited, statusInternalError, statusServiceUnavail, 403, 404}

\* what one call of operation may return
OperationOutcomes == {NilErr, NetErr} \cup { apiError(c) : c \in ApiCodes }

\* client.go:68: lastErr.(*googleapi.Error)
isApiErrorAlways(e) == TRUE
isApiError(e) == e.text = "googleapi.Error"

\* client.go:70-72: the codes that are retried
isRetryableAlways(e) == TRUE
isRetryable(e) ==
    \/ e.code = statusRateLimited
    \/ e.code = statusServiceUnavail
    \/ e.code = statusInternalError

\* client.go:47-52: the backoff of the next wait
nextBackoff(b) ==
    IF b < maxBackoff
    THEN IF b * 2 > maxBackoff THEN maxBackoff ELSE b * 2
    ELSE b

\* client.go:55-59: the select leaves through ctx.Done() when the token has
\* fired (err is ctx.Err()); the timer of at least 2 * initialBackoff started
\* on the line before is then not ready
waitNeverAborts(err) == FALSE
waitAborts(err) == err # NilErr

RetryIdle ==
    /\ rtpc = "off"
    /\ attempt = 0
    /\ backoff = 0
    /\ lastErr = NilErr
    /\ ctxErr = NilErr
    /\ retryErr = NilErr
    /\ outcomes = <<>>
    /\ waits = <<>>

\* before a call of retryWithBackoff, with a token that has not fired
RetryInit ==
    /\ rtpc = "idle"
    /\ attempt = 0
    /\ backoff = 0
    /\ lastErr = NilErr
    /\ ctxErr = NilErr
    /\ retryErr = NilErr
    /\ outcomes = <<>>
    /\ waits = <<>>

\* client.go:40-45: the call, up to the first call of operation
retry_Call ==
    /\ rtpc = "idle"
    /\ rtpc' = "attempt"
    /\ attempt' = 0
    /\ backoff' = initialBackoff
    /\ lastErr' = NilErr
    /\ UNCHANGED <<ctxErr, retryErr, outcomes, waits>>
    /\ UNCHANGED notRetryVars

\* client.go:62-85 and 44-53: operation returns out; the call returns, or
\* the loop goes on to the next attempt: the backoff is doubled and the
\* wait is started, or the attempts are used up
retry_Operation(out) ==
    /\ rtpc = "attempt"
    /\ outcomes' = Append(outcomes, out)
    /\ lastErr' = out
    /\ LET continue ==
             /\ attempt' = attempt + 1
             /\ IF attempt + 1 < maxRetries
                THEN /\ backoff' = nextBackoff(backoff)
                     /\ waits' = Append(waits, nextBackoff(backoff))
                     /\ rtpc' = "wait"
                     /\ UNCHANGED retryErr
                ELSE /\ retryErr' = wrapErr("max retries exceeded", out)
                     /\ rtpc' = "done"
                     /\ UNCHANGED <<backoff, waits>>
           return(e) ==
             /\ retryErr' = e
             /\ rtpc' = "done"
             /\ UNCHANGED <<attempt, backoff, waits>>
       IN  IF out = NilErr THEN return(NilErr)
           ELSE IF isApiError(out)
                THEN IF isRetryable(out) THEN continue ELSE return(out)
           ELSE IF ctxErr # NilErr THEN return(wrapErr("context error", ctxErr))
           ELSE continue
    /\ UNCHANGED ctxErr
    /\ UNCHANGED notRetryVars

\* client.go:56: the timer fires and the select leaves through time.After
retry_TimerFires ==
    /\ rtpc = "wait"
    /\ ~waitAborts(ctxErr)
    /\ rtpc' = "attempt"
    /\ UNCHANGED <<attempt, backoff, lastErr, ctxErr, retryErr, outcomes, waits>>
    /\ UNCHANGED notRetryVars

\* client.go:57-58: the select leaves through ctx.Done()
retry_Aborted ==
    /\ rtpc = "wait"
    /\ waitAborts(ctxErr)
    /\ retryErr' = wrapErr("context cancelled during retry", ctxErr)
    /\ rtpc' = "done"
    /\ UNCHANGED <<attempt, backoff, lastErr, ctxErr, outcomes, waits>>
    /\ UNCHANGED notRetryVars

\* the token passed to retryWithBackoff fires (cancel() or its deadline),
\* before the call, during operation or during a wait
CancelToken(e) ==
    /\ rtpc \in {"idle", "attempt", "wait"}
    /\ ctxErr = NilErr
    /\ ctxErr' = e
    /\ UNCHANGED <<rtpc, attempt, backoff, lastErr, retryErr, outcomes, waits>>
    /\ UNCHANGED notRetryVars

\* ================================================================ registry

\* the validator values that may be registered under one name
NumInstances == 2
Instances == 1..NumInstances

\* no call of Register yet
NoCall == <<0, 0>>

\* part_006:293 and 301-305: an empty registry
NewRegistry(global) ==
    /\ regGlobal = global
    /\ registry = <<>>
    /\ regCall = NoCall
    /\ regPanic = NoErr
    /\ listed = <<>>

RegistryIdle == NewRegistry(FALSE)

\* part_006:346: the name is already a key of globalRegistry.validators
isDuplicateNever(reg, name) == FALSE
isDuplicate(reg, name) == name \in DOMAIN reg

\* part_006:308-315: (*Registry).Register on a registry made by NewRegistry
Registry_Register(name, inst) ==
    /\ ~regGlobal
    /\ registry' = (name :> inst) @@ registry
    /\ regCall' = <<name, inst>>
    /\ regPanic' = NoErr
    /\ UNCHANGED <<regGlobal, listed>>
    /\ UNCHANGED notRegVars

\* part_006:341-350: the package-level Register on the global registry
Register(name, inst) ==
    /\ regGlobal
    /\ regCall' = <<name, inst>>
    /\ IF isDuplicate(registry, name)
       THEN /\ regPanic' = <<"validator already registered", name>>
            /\ UNCHANGED registry
       ELSE /\ registry' = (name :> inst) @@ registry
            /\ regPanic' = NoErr
    /\ UNCHANGED <<regGlobal, listed>>
    /\ UNCHANGED notRegVars

\* part_006:363-367: ClearRegistry replaces the map of the global registry
\* by an empty one
ClearRegistry ==
    /\ regGlobal
    /\ registry' = <<>>
    /\ regCall' = NoCall
    /\ regPanic' = NoErr
    /\ UNCHANGED <<regGlobal, listed>>
    /\ UNCHANGED notRegVars

\* part_006:318-327 and 353-355: GetAll lists the validators in map order
GetAll ==
    /\ \E order \in Perms(DOMAIN registry) :
         listed' = [i \in DOMAIN order |-> registry[order[i]]]
    /\ UNCHANGED <<regGlobal, registry, regCall, regPanic>>
    /\ UNCHANGED notRegVars

\* ========================================================= result stamping

\* the largest reading of the clock
MaxClock == 2

\* part_008:41-49: a Result with the fields the executor and the document
\* use (Details left out); the empty name is 0
FullResult(name, status, reason, message, duration, timestamp) ==
    [ValidatorName |-> name, Status |-> status, Reason |-> reason,
     Message |-> message, Duration |-> duration, Timestamp |-> timestamp]

NilFull == FullResult(0, "nil", "", "", 0, 0)

\* part_008:41-49: the JSON object json.MarshalIndent writes for a Result,
\* by the struct tags (none of the fields is omitempty)
jsonOf(r) ==
    [validator_name |-> r.ValidatorName, status |-> r.Status, reason |-> r.Reason,
     message |-> r.Message, duration_ns |-> r.Duration, timestamp |-> r.Timestamp]

NoDoc == jsonOf(NilFull)

\* what a validator may put in the result it returns
OwnNames == {0} \cup Names
OwnReasons == {"", "SomeReason"}
OwnMessages == {"", "some message"}
OwnDurations == {-1, 0}

\* part_005:136: result.Duration = time.Since(start)
stampDuration(result, start, now) == [result EXCEPT !.Duration = now - start]

\* part_005:137: result.Timestamp = time.Now().UTC()
stampTimestamp(result, now) == [result EXCEPT !.Timestamp = now]

\* part_005:138: result.ValidatorName = meta.Name
stampKeepingName(result, metaName) == result
stampName(result, metaName) == [result EXCEPT !.ValidatorName = metaName]

\* part_005:109-121: the result the recover handler builds, all fields
fullPanicResult(metaName, now) ==
    FullResult(metaName, StatusFailure, "ValidatorPanic", "Validator crashed", 0, now)

StampIdle ==
    /\ spc = "off"
    /\ smeta = 0
    /\ sclock = 0
    /\ sstart = 0
    /\ sresult = NilFull
    /\ sstored = NilFull
    /\ sdoc = NoDoc

\* part_005:95 and 131: the goroutine of the validator named name starts
StampInit(name) ==
    /\ spc = "start"
    /\ smeta = name
    /\ sclock = 0
    /\ sstart = 0
    /\ sresult = NilFull
    /\ sstored = NilFull
    /\ sdoc = NoDoc

\* the monotonic clock advances
Tick ==
    /\ spc \in {"start", "running", "returned", "timed", "panicked"}
    /\ sclock < MaxClock
    /\ sclock' = sclock + 1
    /\ UNCHANGED <<spc, smeta, sstart, sresult, sstored, sdoc>>
    /\ UNCHANGED notStampVars

\* part_005:134-135: start := time.Now(), then Validate is called
Stamp_Start ==
    /\ spc = "start"
    /\ sstart' = sclock
    /\ spc' = "running"
    /\ UNCHANGED <<smeta, sclock, sresult, sstored, sdoc>>
    /\ UNCHANGED notStampVars

\* part_005:135: Validate returns a result with fields of its choosing
Stamp_ValidateReturns(own, status, reason, message, duration) ==
    /\ spc = "running"
    /\ sresult' = FullResult(own, status, reason, message, duration, 0)
    /\ spc' = "returned"
    /\ UNCHANGED <<smeta, sclock, sstart, sstored, sdoc>>
    /\ UNCHANGED notStampVars

\* part_005:135-136 and 99-100: Validate panics (or returns nil)
Stamp_ValidatePanics ==
    /\ spc = "running"
    /\ spc' = "panicked"
    /\ UNCHANGED <<smeta, sclock, sstart, sresult, sstored, sdoc>>
    /\ UNCHANGED notStampVars

\* part_005:136: the clock is read and the duration is set on the Result
\* the validator returned; sstored is that Result from here on, sresult
\* keeps what the validator returned
Stamp_Duration ==
    /\ spc = "returned"
    /\ sstored' = stampDuration(sresult, sstart, sclock)
    /\ spc' = "timed"
    /\ UNCHANGED <<smeta, sclock, sstart, sresult, sdoc>>
    /\ UNCHANGED notStampVars

\* part_005:137: the clock is read again and the timestamp is set
Stamp_Timestamp ==
    /\ spc = "timed"
    /\ sstored' = stampTimestamp(sstored, sclock)
    /\ spc' = "dated"
    /\ UNCHANGED <<smeta, sclock, sstart, sresult, sdoc>>
    /\ UNCHANGED notStampVars

\* part_005:138: the name is set
Stamp_Name ==
    /\ spc = "dated"
    /\ sstored' = stampName(sstored, smeta)
    /\ spc' = "named"
    /\ UNCHANGED <<smeta, sclock, sstart, sresult, sdoc>>
    /\ UNCHANGED notStampVars

\* part_005:141-145: the pointer to the Result is stored in Context.Results
\* and in the slot; the Result itself is not changed
Stamp_Store ==
    /\ spc = "named"
    /\ spc' = "stored"
    /\ UNCHANGED <<smeta, sclock, sstart, sresult, sstored, sdoc>>
    /\ UNCHANGED notStampVars

\* part_005:100-127: the recover handler builds and stores the panic result
Stamp_Recover ==
    /\ spc = "panicked"
    /\ sstored' = fullPanicResult(smeta, sclock)
    /\ spc' = "stored"
    /\ UNCHANGED <<smeta, sclock, sstart, sresult, sdoc>>
    /\ UNCHANGED notStampVars

\* part_008:81 and main.go:88-102: the stored result is an element of
\* details.validators of the aggregate, which is marshalled and written
Stamp_Marshal ==
    /\ spc = "stored"
    /\ sdoc' = jsonOf(sstored)
    /\ spc' = "written"
    /\ UNCHANGED <<smeta, sclock, sstart, sresult, sstored>>
    /\ UNCHANGED notStampVars

\* ============================================== the api-enabled validator

\* the largest number of entries of Config.RequiredAPIs
MaxAPIs == 3

\* A Go error as extractErrorReason sees it: nil, or an error whose chain
\* holds a *googleapi.Error (api) with its HTTP code and the Reason of its
\* first ErrorItem ("" when it has none), or another error.
NoError == [nil |-> TRUE, api |-> FALSE, code |-> 0, reason |-> ""]
GoogleApiError(code, reason) == [nil |-> FALSE, api |-> TRUE, code |-> code, reason |-> reason]
OtherError == [nil |-> FALSE, api |-> FALSE, code |-> 0, reason |-> ""]

\* the errors the accessor and the lookups are made to return
ApiErrors == {GoogleApiError(403, "SERVICE_DISABLED"), GoogleApiError(403, ""),
              GoogleApiError(404, ""), OtherError}

\* part_010:36: fmt.Sprintf("HTTP_%d", apiErr.Code)
httpReason(code) ==
    IF code = 403 THEN "HTTP_403"
    ELSE IF code = 404 THEN "HTTP_404"
    ELSE "HTTP_other"

\* part_010:23-41
extractErrorReason(err, fallbackReason) ==
    IF err.nil THEN fallbackReason
    ELSE IF err.api
         THEN IF err.reason # "" THEN err.reason ELSE httpReason(err.code)
    ELSE fallbackReason

\* context.go:237-249: what GetServiceUsageService returns on a Context
\* whose Once has not run: (handle, nil) or (nil, err)
AccessorOutcomes ==
    {[handle |-> 1, err |-> NoError]} \cup
    { [handle |-> NilHandle, err |-> e] : e \in ApiErrors }

NoHandleYet == [handle |-> NilHandle, err |-> NoError]

\* part_010:106: what one svc.Services.Get(...).Do() returns: a service with
\* its State, or an error
LookupOutcomes ==
    { [state |-> st, err |-> NoError] : st \in {"ENABLED", "DISABLED", "STATE_UNSPECIFIED"} }
    \cup { [state |-> "", err |-> e] : e \in ApiErrors }

\* part_010:81-91, 120-131, 145-155, 165-173: the results Validate builds
ApiResult(status, reason, enabledAPIs, disabledAPIs) ==
    [Status |-> status, Reason |-> reason,
     enabled_apis |-> enabledAPIs, disabled_apis |-> disabledAPIs]

NoApiResult == ApiResult("nil", "", <<>>, <<>>)

\* part_010:134: service.State == "ENABLED"
isEnabledAny(state) == TRUE
isEnabledState(state) == state = "ENABLED"

\* part_010:96-97 and 134-140: the APIs whose lookup returned, split by state
enabledOf(apis, queries) ==
    SelectSeq(apis, LAMBDA a : a \in DOMAIN queries /\ isEnabledState(queries[a].state))
disabledOf(apis, queries) ==
    SelectSeq(apis, LAMBDA a : a \in DOMAIN queries /\ ~isEnabledState(queries[a].state))

ApiIdle ==
    /\ vpc = "off"
    /\ vapis = <<>>
    /\ vhandle = NoHandleYet
    /\ vqueries = <<>>
    /\ vresult = NoApiResult

\* part_010:62-67: Validate is called with n required APIs in the Config
\* (the i-th API is named i)
ApiInit(n) ==
    /\ vpc = "start"
    /\ vapis = [i \in 1..n |-> i]
    /\ vhandle = NoHandleYet
    /\ vqueries = <<>>
    /\ vresult = NoApiResult

\* part_010:71-92: the accessor returns; on an error Validate returns a
\* failure whose reason is extracted from the error
Api_GetService(out) ==
    /\ vpc = "start"
    /\ vhandle' = out
    /\ IF ~out.err.nil
       THEN /\ vresult' = ApiResult(StatusFailure,
                                    extractErrorReason(out.err, "ServiceUsageClientError"),
                                    <<>>, <<>>)
            /\ vpc' = "done"
       ELSE /\ vpc' = "lookup"
            /\ UNCHANGED vresult
    /\ UNCHANGED <<vapis, vqueries>>
    /\ UNCHANGED notApiVars

\* part_010:71 and context.go:239-240: the accessor panics (the Context has
\* no client factory) and the panic leaves Validate
Api_GetServicePanics ==
    /\ vpc = "start"
    /\ vpc' = "panicked"
    /\ UNCHANGED <<vapis, vhandle, vqueries, vresult>>
    /\ UNCHANGED notApiVars

\* part_010:99-141: one pass of the loop over the required APIs: the lookup
\* returns out; on an error Validate returns a failure
Api_Lookup(out) ==
    /\ vpc = "lookup"
    /\ Len(vqueries) < Len(vapis)
    /\ vqueries' = Append(vqueries, out)
    /\ IF ~out.err.nil
       THEN /\ vresult' = ApiResult(StatusFailure,
                                    extractErrorReason(out.err, "APICheckFailed"),
                                    <<>>, <<>>)
            /\ vpc' = "done"
       ELSE UNCHANGED <<vpc, vresult>>
    /\ UNCHANGED <<vapis, vhandle>>
    /\ UNCHANGED notApiVars

\* part_010:143-174: the loop has ended
Api_Summarise ==
    /\ vpc = "lookup"
    /\ Len(vqueries) = Len(vapis)
    /\ LET enabledAPIs == enabledOf(vapis, vqueries)
           disabledAPIs == disabledOf(vapis, vqueries)
       IN  vresult' = IF Len(disabledAPIs) > 0
                      THEN ApiResult(StatusFailure, "RequiredAPIsDisabled",
                                     enabledAPIs, disabledAPIs)
                      ELSE ApiResult(StatusSuccess, "AllAPIsEnabled", enabledAPIs, <<>>)
    /\ vpc' = "done"
    /\ UNCHANGED <<vapis, vhandle, vqueries>>
    /\ UNCHANGED notApiVars

\* ================================== accessor calls on the Context of a run

\* the largest number of accessor calls of a run
MaxAccess == 4

\* what one accessor call did: the handle and the error it returned, or
\* that it panicked
AccessCall(k, handle, err, panic) ==
    [kind |-> k, handle |-> handle, err |-> err, panic |-> panic]

AccessIdle ==
    /\ xbuilt = "none"
    /\ xfactory = "nil"
    /\ xonce = [k \in Kinds |-> "idle"]
    /\ xsvc = [k \in Kinds |-> NilHandle]
    /\ xcalls = <<>>

\* main.go:60-63: the entrypoint builds the Context with a struct literal
\* of Config and Results; clientFactory keeps its zero value
ContextByMain ==
    /\ xbuilt = "main"
    /\ xfactory = "nil"
    /\ xonce = [k \in Kinds |-> "idle"]
    /\ xsvc = [k \in Kinds |-> NilHandle]
    /\ xcalls = <<>>

\* context.go:175-181: NewContext sets clientFactory
ContextByNewContext ==
    /\ xbuilt = "NewContext"
    /\ xfactory = "set"
    /\ xonce = [k \in Kinds |-> "idle"]
    /\ xsvc = [k \in Kinds |-> NilHandle]
    /\ xcalls = <<>>

\* context.go:240 and client.go:172: Create<kind>Service is called on
\* c.clientFactory and reads f.logger, a nil dereference on a nil factory
factoryFaults(factory) == factory = "nil"

\* context.go:237-249 and client.go:171-192: the first call of the accessor
\* of kind k on a Context with a factory; the factory returns a handle (ok)
\* or an error
Access_Create(k, ok) ==
    /\ Len(xcalls) < MaxAccess
    /\ xonce[k] = "idle"
    /\ ~factoryFaults(xfactory)
    /\ xonce' = [xonce EXCEPT ![k] = "done"]
    /\ xsvc' = [xsvc EXCEPT ![k] = IF ok THEN 1 ELSE NilHandle]
    /\ xcalls' = Append(xcalls, AccessCall(k, IF ok THEN 1 ELSE NilHandle, ~ok, FALSE))
    /\ UNCHANGED <<xbuilt, xfactory>>
    /\ UNCHANGED notAccVars

\* context.go:239-240 and client.go:172: the first call of the accessor of
\* kind k on a Context without factory panics inside Once.Do, which still
\* marks the Once as done
Access_NilFactory(k) ==
    /\ Len(xcalls) < MaxAccess
    /\ xonce[k] = "idle"
    /\ factoryFaults(xfactory)
    /\ xonce' = [xonce EXCEPT ![k] = "done"]
    /\ xcalls' = Append(xcalls, AccessCall(k, NilHandle, FALSE, TRUE))
    /\ UNCHANGED <<xbuilt, xfactory, xsvc>>
    /\ UNCHANGED notAccVars

\* context.go:238-248: a later call of the accessor of kind k: Do does not
\* run the function, the local err is nil and the field is returned
Access_Cached(k) ==
    /\ Len(xcalls) < MaxAccess
    /\ xonce[k] = "done"
    /\ xcalls' = Append(xcalls, AccessCall(k, xsvc[k], FALSE, FALSE))
    /\ UNCHANGED <<xbuilt, xfactory, xonce, xsvc>>
    /\ UNCHANGED notAccVars

\* ========================================================== specifications

\* the resolver alone, on every input within the bounds
InitResolver ==
    /\ \E V \in SUBSET Names : NewDependencyResolver(V)
    /\ AggregatorIdle
    /\ ContextIdle
    /\ ExecutorIdle
    /\ MainIdle
    /\ RetryIdle
    /\ RegistryIdle
    /\ StampIdle
    /\ ApiIdle
    /\ AccessIdle

NextResolver ==
    \/ \E a \in Names, b \in Names : AddRunAfter(a, b)
    \/ CallResolve
    \/ DetectCycles
    \/ AssignLevels
    \/ GroupByLevel

SpecResolver == InitResolver /\ [][NextResolver]_vars

\* the aggregator alone, on every input within the bounds
InitAggregate ==
    /\ ResolverIdle
    /\ AggregatorInit
    /\ ContextIdle
    /\ ExecutorIdle
    /\ MainIdle
    /\ RetryIdle
    /\ RegistryIdle
    /\ StampIdle
    /\ ApiIdle
    /\ AccessIdle

NextAggregate ==
    \/ \E name \in Names, status \in Statuses : AppendResult(name, status)
    \/ DoAggregate

SpecAggregate == InitAggregate /\ [][NextAggregate]_vars

\* the Context accessors alone, called by concurrent goroutines
InitContext ==
    /\ ResolverIdle
    /\ AggregatorIdle
    /\ NewContext
    /\ ExecutorIdle
    /\ MainIdle
    /\ RetryIdle
    /\ RegistryIdle
    /\ StampIdle
    /\ ApiIdle
    /\ AccessIdle

NextContext ==
    \/ \E c \in Callers, k \in Kinds : GetService_Call(c, k)
    \/ \E c \in Callers : Once_Run(c)
    \/ \E c \in Callers : Once_Skip(c)
    \/ \E c \in Callers, ok \in BOOLEAN : Create(c, ok)
    \/ \E c \in Callers : GetService_Return(c)

SpecContext == InitContext /\ [][NextContext]_vars

\* a run of ExecuteAll over every set of enabled validators, every metadata
\* within the bounds and every interleaving of the goroutines
InitExec ==
    /\ \E E \in SUBSET Names, stop \in BOOLEAN :
         /\ NewExecutor(E, stop)
         /\ NewDependencyResolver({})
    /\ AggregatorIdle
    /\ ContextIdle
    /\ MainIdle
    /\ RetryIdle
    /\ RegistryIdle
    /\ StampIdle
    /\ ApiIdle
    /\ AccessIdle

NextExec ==
    \/ \E a \in Names, b \in Names : AddRunAfter(a, b)
    \/ ExecuteAll_Begin
    \/ DetectCycles
    \/ AssignLevels
    \/ GroupByLevel
    \/ ExecuteAll_Resolved
    \/ executeGroup_Spawn
    \/ \E v \in Names : CallValidate(v)
    \/ \E v \in Names, status \in Statuses : ValidateReturns(v, status)
    \/ \E v \in Names, value \in PanicValues : ValidatePanics(v, value)
    \/ \E v \in Names : ValidateReturnsNil(v)
    \/ \E v \in Names : LockAndStore(v)
    \/ \E v \in Names : Unlock(v)
    \/ \E v \in Names : StoreSlotAndDone(v)
    \/ \E v \in Names : RecoverLockAndStore(v)
    \/ \E v \in Names : RecoverUnlock(v)
    \/ \E v \in Names : RecoverDone(v)
    \/ executeGroup_Return
    \/ ExecuteAll_Return

SpecExec == InitExec /\ [][NextExec]_vars

\* the steps of a call of ExecuteAll, of the goroutines it starts and of the
\* validators they call
RunSteps ==
    \/ ExecuteAll_Begin
    \/ DetectCycles
    \/ AssignLevels
    \/ GroupByLevel
    \/ ExecuteAll_Resolved
    \/ executeGroup_Spawn
    \/ \E v \in Names : CallValidate(v)
    \/ \E v \in Names, status \in Statuses : ValidateReturns(v, status)
    \/ \E v \in Names, value \in PanicValues : ValidatePanics(v, value)
    \/ \E v \in Names : LockAndStore(v)
    \/ \E v \in Names : Unlock(v)
    \/ \E v \in Names : StoreSlotAndDone(v)
    \/ \E v \in Names : RecoverLockAndStore(v)
    \/ \E v \in Names : RecoverUnlock(v)
    \/ \E v \in Names : RecoverDone(v)
    \/ executeGroup_Return
    \/ ExecuteAll_Return

\* the run_after lists of a run: a validator runs after the validator
\* named just before it, or after none
ChainedRunAfter ==
    { ra \in [Names -> {<<>>} \cup { <<n>> : n \in Names }] :
        \A n \in Names : ra[n] # <<>> => ra[n] = <<n - 1>> }

\* part_005:20-25: an executor over validators whose metadata is declared
InitExecFair ==
    /\ \E E \in SUBSET Names, stop \in BOOLEAN : NewExecutor(E, stop)
    /\ validators = {}
    /\ runAfter \in ChainedRunAfter
    /\ rpc = "meta"
    /\ planLevels = <<>>
    /\ groups = <<>>
    /\ resolveErr = NoErr
    /\ AggregatorIdle
    /\ ContextIdle
    /\ MainIdle
    /\ RetryIdle
    /\ RegistryIdle
    /\ StampIdle
    /\ ApiIdle
    /\ AccessIdle

\* a run of the executor with the scheduling the Go runtime gives and with
\* validators that end: as long as ExecuteAll, a goroutine that is not
\* blocked, or a call of Validate can take a step, one of them does
SpecExecFair == InitExecFair /\ [][RunSteps]_vars /\ WF_vars(RunSteps)

\* a run of the process from the entry of main to its exit
InitMain ==
    /\ ResolverIdle
    /\ AggregatorIdle
    /\ ContextIdle
    /\ ExecutorIdle
    /\ MainStart
    /\ RetryIdle
    /\ RegistryIdle
    /\ StampIdle
    /\ ApiIdle
    /\ AccessIdle

NextMain ==
    \/ Main_ConfigError
    \/ \E E \in SUBSET Names, stop \in BOOLEAN : Main_Setup(E, stop)
    \/ CancelRun
    \/ \E a \in Names, b \in Names : AddRunAfter(a, b)
    \/ ExecuteAll_Begin
    \/ DetectCycles
    \/ AssignLevels
    \/ GroupByLevel
    \/ ExecuteAll_Resolved
    \/ executeGroup_Spawn
    \/ \E v \in Names : CallValidate(v)
    \/ \E v \in Names, status \in Statuses : ValidateReturns(v, status)
    \/ \E v \in Names, value \in PanicValues : ValidatePanics(v, value)
    \/ \E v \in Names : LockAndStore(v)
    \/ \E v \in Names : Unlock(v)
    \/ \E v \in Names : StoreSlotAndDone(v)
    \/ \E v \in Names : RecoverLockAndStore(v)
    \/ \E v \in Names : RecoverUnlock(v)
    \/ \E v \in Names : RecoverDone(v)
    \/ executeGroup_Return
    \/ ExecuteAll_Return
    \/ Main_OrchestrationError
    \/ \E marshalOK \in BOOLEAN, writeOK \in BOOLEAN : Main_Report(marshalOK, writeOK)

SpecMain == InitMain /\ [][NextMain]_vars

\* one call of retryWithBackoff, over every sequence of outcomes of the
\* operation and every moment at which the token fires
InitRetry ==
    /\ ResolverIdle
    /\ AggregatorIdle
    /\ ContextIdle
    /\ ExecutorIdle
    /\ MainIdle
    /\ RetryInit
    /\ RegistryIdle
    /\ StampIdle
    /\ ApiIdle
    /\ AccessIdle

NextRetry ==
    \/ retry_Call
    \/ \E out \in OperationOutcomes : retry_Operation(out)
    \/ retry_TimerFires
    \/ retry_Aborted
    \/ \E e \in {Canceled, DeadlineExceeded} : CancelToken(e)

SpecRetry == InitRetry /\ [][NextRetry]_vars

\* a run of the executor whose validators call the accessors of the Context
\* from inside Validate; the validators declare no RunAfter (as api-enabled,
\* part_010:51-60), return success and do not panic, and StopOnFirstFailure
\* is not set
InitLeast ==
    /\ \E E \in SUBSET Names :
         /\ NewExecutor(E, FALSE)
         /\ NewDependencyResolver({})
    /\ AggregatorIdle
    /\ NewContext
    /\ MainIdle
    /\ RetryIdle
    /\ RegistryIdle
    /\ StampIdle
    /\ ApiIdle
    /\ AccessIdle

NextLeast ==
    \/ ExecuteAll_Begin
    \/ DetectCycles
    \/ AssignLevels
    \/ GroupByLevel
    \/ ExecuteAll_Resolved
    \/ executeGroup_Spawn
    \/ \E v \in Names : CallValidate(v)
    \/ \E v \in Callers, k \in Kinds : Validate_GetService(v, k)
    \/ \E c \in Callers : Once_Run(c)
    \/ \E c \in Callers : Once_Skip(c)
    \/ \E c \in Callers, ok \in BOOLEAN : Create(c, ok)
    \/ \E c \in Callers : GetService_Return(c)
    \/ \E v \in Names : Validate_Returns(v, StatusSuccess)
    \/ \E v \in Names : LockAndStore(v)
    \/ \E v \in Names : Unlock(v)
    \/ \E v \in Names : StoreSlotAndDone(v)
    \/ executeGroup_Return
    \/ ExecuteAll_Return

SpecLeast == InitLeast /\ [][NextLeast]_vars

\* calls of Register, GetAll and ClearRegistry on the global registry, or
\* of Register and GetAll on a registry made by NewRegistry
InitRegistry ==
    /\ ResolverIdle
    /\ AggregatorIdle
    /\ ContextIdle
    /\ ExecutorIdle
    /\ MainIdle
    /\ RetryIdle
    /\ \E global \in BOOLEAN : NewRegistry(global)
    /\ StampIdle
    /\ ApiIdle
    /\ AccessIdle

NextRegistry ==
    \/ \E name \in Names, inst \in Instances : Registry_Register(name, inst)
    \/ \E name \in Names, inst \in Instances : Register(name, inst)
    \/ ClearRegistry
    \/ GetAll

SpecRegistry == InitRegistry /\ [][NextRegistry]_vars

\* one validator's result from the start of its goroutine to the document
InitStamp ==
    /\ ResolverIdle
    /\ AggregatorIdle
    /\ ContextIdle
    /\ ExecutorIdle
    /\ MainIdle
    /\ RetryIdle
    /\ RegistryIdle
    /\ \E name \in Names : StampInit(name)
    /\ ApiIdle
    /\ AccessIdle

NextStamp ==
    \/ Tick
    \/ Stamp_Start
    \/ \E own \in OwnNames, status \in Statuses, reason \in OwnReasons,
          message \in OwnMessages, duration \in OwnDurations :
            Stamp_ValidateReturns(own, status, reason, message, duration)
    \/ Stamp_ValidatePanics
    \/ Stamp_Duration
    \/ Stamp_Timestamp
    \/ Stamp_Name
    \/ Stamp_Store
    \/ Stamp_Recover
    \/ Stamp_Marshal

SpecStamp == InitStamp /\ [][NextStamp]_vars

\* one call of APIEnabledValidator.Validate
InitApi ==
    /\ ResolverIdle
    /\ AggregatorIdle
    /\ ContextIdle
    /\ ExecutorIdle
    /\ MainIdle
    /\ RetryIdle
    /\ RegistryIdle
    /\ StampIdle
    /\ \E n \in 0..MaxAPIs : ApiInit(n)
    /\ AccessIdle

NextApi ==
    \/ \E out \in AccessorOutcomes : Api_GetService(out)
    \/ Api_GetServicePanics
    \/ \E out \in LookupOutcomes : Api_Lookup(out)
    \/ Api_Summarise

SpecApi == InitApi /\ [][NextApi]_vars

\* the accessor calls the validators of a run make one after another, on the
\* Context the entrypoint builds or on one built by NewContext
InitAccess ==
    /\ ResolverIdle
    /\ AggregatorIdle
    /\ ContextIdle
    /\ ExecutorIdle
    /\ MainIdle
    /\ RetryIdle
    /\ RegistryIdle
    /\ StampIdle
    /\ ApiIdle
    /\ (ContextByMain \/ ContextByNewContext)

NextAccess ==
    \/ \E k \in Kinds, ok \in BOOLEAN : Access_Create(k, ok)
    \/ \E k \in Kinds : Access_NilFactory(k)
    \/ \E k \in Kinds : Access_Cached(k)

SpecAccess == InitAccess /\ [][NextAccess]_vars



\* ================================================================== claims

\* the run_after edges between validators that are both in the input
Edges(V, RA) == { e \in V \X V : e[2] \in Range(RA[e[1]]) }

\* the validators reachable from the set S along one or more edges
RECURSIVE ReachFrom(_, _)
ReachFrom(E, S) ==
    LET next == S \cup { e[2] : e \in { f \in E : f[1] \in S } } IN
    IF next = S THEN S ELSE ReachFrom(E, next)

HasCycle(V, RA) ==
    LET E == Edges(V, RA) IN
    \E a \in V : a \in ReachFrom(E, { e[2] : e \in { f \in E : f[1] = a } })

\* the groups of the plan that list validator a
GroupsOf(a) == { g \in DOMAIN groups : a \in Range(groups[g].Validators) }

\* C2: in every plan ResolveExecutionGroups returns, a validator whose
\* run_after names another validator of the input is in a group of strictly
\* greater level than that validator.
C2_EdgeLevelsIncrease ==
    (rpc = "done" /\ resolveErr = NoErr) =>
        \A e \in Edges(validators, runAfter) :
            \E ga \in GroupsOf(e[1]), gb \in GroupsOf(e[2]) :
                groups[ga].Level > groups[gb].Level

\* a plan of three levels was returned for a chain a -> b -> c
C2_Witness ==
    /\ rpc = "done"
    /\ resolveErr = NoErr
    /\ Len(groups) = 3
    /\ \E a \in validators, b \in validators, c \in validators :
         /\ <<a, b>> \in Edges(validators, runAfter)
         /\ <<b, c>> \in Edges(validators, runAfter)

\* C3: ResolveExecutionGroups returns an error exactly when the run_after
\* graph restricted to the input validators has a cycle (a self-edge
\* included), in whatever order the validators are visited.
C3_ErrorIffCycle ==
    rpc = "done" => ((resolveErr # NoErr) <=> HasCycle(validators, runAfter))

\* an error was returned for a cycle through two or more validators
C3_Witness ==
    /\ rpc = "done"
    /\ resolveErr # NoErr
    /\ resolveErr[1] # resolveErr[2]

NumPassed(results) == Cardinality({ i \in DOMAIN results : results[i].Status = StatusSuccess })

\* the names of the results of status failure, in input order
RECURSIVE FailedNames(_)
FailedNames(results) ==
    IF results = <<>> THEN <<>>
    ELSE (IF Head(results).Status = StatusFailure
          THEN <<Head(results).ValidatorName>> ELSE <<>>) \o FailedNames(Tail(results))

\* C8: Aggregate returns status success exactly when every result has
\* status success and there is at least one result.
C8_SuccessIffAllPassedNonEmpty ==
    apc = "done" =>
        ((aggOut.Status = StatusSuccess) <=>
            (NumPassed(aggInput) = Len(aggInput) /\ Len(aggInput) >= 1))

\* C9: a failing aggregate has a non-empty failed_checks listing the failing
\* results' names in input order and checks_passed < checks_run; a successful
\* aggregate has no failed_checks.
C9_FailedChecksNonEmpty ==
    apc = "done" =>
        /\ aggOut.Status = StatusFailure =>
              /\ "failed_checks" \in DOMAIN aggOut.Details
              /\ aggOut.Details["failed_checks"] # <<>>
              /\ aggOut.Details["failed_checks"] = FailedNames(aggInput)
              /\ aggOut.Details["checks_passed"] < aggOut.Details["checks_run"]
        /\ aggOut.Status = StatusSuccess =>
              "failed_checks" \notin DOMAIN aggOut.Details

\* C10: checks_run is the number of results, checks_passed the number of
\* results of status success, and validators the input list in order.
C10_DetailsCounts ==
    apc = "done" =>
        /\ aggOut.Details["checks_run"] = Len(aggInput)
        /\ aggOut.Details["checks_passed"] = NumPassed(aggInput)
        /\ aggOut.Details["validators"] = aggInput

\* a list holding a success, a skipped and a failure was aggregated
C10_Witness ==
    /\ apc = "done"
    /\ \A st \in Statuses : \E i \in DOMAIN aggInput : aggInput[i].Status = st
    /\ aggOut.Details["checks_passed"] = 1

\* the one construction attempt of kind k was made and failed
ConstructionFailed(k) == once[k] = "done" /\ svc[k] = NilHandle

\* C6: the factory is called at most once per service kind, and once a
\* construction has succeeded every accessor call of that kind returns the
\* stored handle and no error.
C6_OnceAndCached ==
    /\ \A k \in Kinds : constructs[k] <= 1
    /\ (lastRet.kind \in Kinds /\ svc[lastRet.kind] # NilHandle) =>
          (lastRet.handle = svc[lastRet.kind] /\ ~lastRet.err)

\* a call that did not run the construction returned the handle another
\* call built, after MaxCalls calls of the accessors
C6_Witness ==
    /\ lastRet.kind \in Kinds
    /\ ~lastRet.ran
    /\ lastRet.handle # NilHandle
    /\ ncalls = MaxCalls
    /\ constructs[lastRet.kind] = 1

\* C7: when the one construction attempt of a kind failed, every accessor
\* call of that kind returns an error, and no call returns a nil handle
\* with a nil error.
C7_FailureSeenByAll ==
    lastRet.kind \in Kinds =>
        /\ ConstructionFailed(lastRet.kind) => lastRet.err
        /\ ~(lastRet.handle = NilHandle /\ ~lastRet.err)

\* the validators of group g of the plan
Members(g) == Range(groups[g].Validators)

\* the slot of validator u in the results slice of its group
SlotOf(u) == slots[groupOf(u)][indexOf(groups[groupOf(u)], u)]

\* Validate of v has been invoked
Invoked(v) == gpc[v] \notin {"idle", "spawned"}

\* every goroutine of group g has finished
GroupFinished(g) == \A u \in Members(g) : gpc[u] = "done"

RECURSIVE Flatten(_)
Flatten(ss) == IF ss = <<>> THEN <<>> ELSE Head(ss) \o Flatten(Tail(ss))

\* C1: when Validate of a validator of some group is invoked, every
\* validator of every earlier group has finished and its result is in
\* Context.results and in its group's slot, under every interleaving.
C1_GroupBarrier ==
    \A v \in Names : Invoked(v) =>
        \A g \in 1..(groupOf(v) - 1) : \A u \in Members(g) :
            /\ gpc[u] = "done"
            /\ u \in DOMAIN ctxResults
            /\ SlotOf(u) # NilResult

\* a validator of the second group is inside Validate after a first group
\* of two validators
C1_Witness ==
    \E v \in Names :
        /\ gpc[v] = "validating"
        /\ groupOf(v) = 2
        /\ Cardinality(Members(1)) = 2

\* C4: a validator that panicked is recorded with status failure and reason
\* ValidatorPanic in Context.results and in its slot; when its group is
\* over every sibling has its own result; ExecuteAll returns no error and,
\* unless stop_on_first_failure is set, only after every later group ran.
C4_PanicIsolated ==
    \A v \in panicked :
        /\ gpc[v] \in {"plocked", "punlocked", "done"} =>
              /\ ctxResults[v] = Result(v, StatusFailure, "ValidatorPanic")
              /\ SlotOf(v) = Result(v, StatusFailure, "ValidatorPanic")
        /\ (gi > groupOf(v) \/ epc = "returned") =>
              \A u \in Members(groupOf(v)) :
                  /\ SlotOf(u).ValidatorName = u
                  /\ SlotOf(u).Status \in Statuses
                  /\ ctxResults[u] = SlotOf(u)
                  /\ u \notin panicked => SlotOf(u).Reason # "ValidatorPanic"
        /\ epc = "returned" => retErr = NoErr
        /\ (epc = "returned" /\ ~stopOnFirstFailure) =>
              \A g \in DOMAIN groups : \A w \in Members(g) : gpc[w] = "done"

\* without fail-fast, a validator of the first group panicked, a sibling
\* succeeded and a later group ran
C4_Witness ==
    /\ epc = "returned"
    /\ ~stopOnFirstFailure
    /\ Len(groups) >= 2
    /\ \E v \in panicked, u \in Names \ panicked :
         /\ groupOf(v) = 1
         /\ u \in Members(1)
         /\ SlotOf(u).Status = StatusSuccess

\* C5: with stop_on_first_failure, once a group is over with a failure in
\* it, no validator of a later group is ever invoked and ExecuteAll returns
\* the results of the groups up to that one with a nil error.
C5_FailFast ==
    stopOnFirstFailure =>
        \A g \in DOMAIN slots :
            (GroupFinished(g) /\ \E i \in DOMAIN slots[g] : slots[g][i].Status = StatusFailure) =>
                /\ \A g2 \in (g + 1)..Len(groups) : \A w \in Members(g2) : gpc[w] = "idle"
                /\ gi = g
                /\ epc \in {"wait", "returned"}
                /\ epc = "returned" =>
                      /\ retErr = NoErr
                      /\ allResults = Flatten(SubSeq(slots, 1, g))

\* fail-fast returned after a first group of two with a failure, leaving a
\* later group unstarted
C5_Witness ==
    /\ stopOnFirstFailure
    /\ epc = "returned"
    /\ Len(groups) >= 2
    /\ Len(slots) = 1
    /\ Len(allResults) = 2
    /\ \E i \in DOMAIN allResults : allResults[i].Status = StatusFailure
    /\ \E i \in DOMAIN allResults : allResults[i].Status = StatusSuccess

\* the validator names of a list of results, in the order of the list
NamesOf(results) == [i \in DOMAIN results |-> results[i].ValidatorName]

\* C11: the groups of the plan are in level order and each lists its
\* validators in ascending (alphabetical) order; a goroutine's result is
\* written in the slot of its validator's position in the group, whenever it
\* completes; and the list ExecuteAll builds and returns is the results of
\* the executed groups in plan order, each group in its validator order.
C11_ResultOrder ==
    /\ \A g \in DOMAIN groups :
         /\ groups[g].Level = g - 1
         /\ \A i \in DOMAIN groups[g].Validators : \A j \in DOMAIN groups[g].Validators :
              i < j => groups[g].Validators[i] < groups[g].Validators[j]
    /\ \A g \in DOMAIN slots : \A i \in DOMAIN slots[g] :
         slots[g][i] # NilResult => slots[g][i].ValidatorName = groups[g].Validators[i]
    /\ \E k \in {Len(slots) - 1, Len(slots)} :
         /\ k >= 0
         /\ NamesOf(allResults) = Flatten([g \in 1..k |-> groups[g].Validators])
    /\ (epc = "returned" /\ retErr = NoErr) =>
         NamesOf(allResults) = Flatten([g \in 1..Len(slots) |-> groups[g].Validators])

\* the first group's result is in the list and, in the second group, the
\* validator that is second in alphabetical order has completed while the
\* first has not
C11_Witness ==
    /\ Len(allResults) = 1
    /\ Len(slots) = 2
    /\ Len(slots[2]) = 2
    /\ slots[2][1] = NilResult
    /\ slots[2][2] # NilResult

\* C12: when ExecuteAll has returned without error on a fresh Context, the
\* keys of Context.results are exactly the validator names of the returned
\* list and each key holds the result the list holds for that name, whether
\* it is a success, a failure, a skipped or a panic-induced failure.
C12_ContextHoldsReturned ==
    (epc = "returned" /\ retErr = NoErr) =>
        /\ DOMAIN ctxResults = Range(NamesOf(allResults))
        /\ \A i \in DOMAIN allResults :
             /\ allResults[i].Status \in Statuses
             /\ ctxResults[allResults[i].ValidatorName] = allResults[i]

\* ExecuteAll returned a success, a skipped and a panic-induced failure
C12_Witness ==
    /\ epc = "returned"
    /\ retErr = NoErr
    /\ \E i \in DOMAIN allResults : allResults[i].Status = StatusSuccess
    /\ \E i \in DOMAIN allResults : allResults[i].Status = StatusSkipped
    /\ \E i \in DOMAIN allResults : allResults[i].Reason = "ValidatorPanic"

\* C13: a cycle among the enabled validators makes the resolver return an
\* error naming an edge between them; and when no validator is enabled or
\* the resolver returned an error, ExecuteAll returns the error ("no
\* validators enabled", respectively the resolver's error wrapped) with no
\* result list, no goroutine was started (no Validate invoked) and
\* Context.results is empty.
C13_OrchestrationFailure ==
    /\ (epc = "resolve" /\ rpc = "done" /\ HasCycle(validators, runAfter)) =>
          /\ resolveErr # NoErr
          /\ <<resolveErr[1], resolveErr[2]>> \in Edges(validators, runAfter)
    /\ (epc = "returned" /\ (enabled = {} \/ resolveErr # NoErr)) =>
          /\ enabled = {} => retErr = <<"no validators enabled">>
          /\ enabled # {} => retErr = <<"dependency resolution failed", resolveErr>>
          /\ allResults = <<>>
          /\ slots = <<>>
          /\ \A v \in Names : gpc[v] = "idle"
          /\ panicked = {}
          /\ ctxResults = <<>>

\* ExecuteAll returned the wrapped resolver error for a cycle through two
\* enabled validators
C13_Witness ==
    /\ epc = "returned"
    /\ Cardinality(enabled) >= 2
    /\ Len(retErr) = 2
    /\ retErr[1] = "dependency resolution failed"
    /\ retErr[2][1] # retErr[2][2]

\* C14: the resolver returns no error for an acyclic graph, and ExecuteAll
\* returns an error exactly when no validator is enabled or the resolver
\* returned one; so with a validator enabled and no cycle the error is nil,
\* whatever the validators return and also when they panic.
C14_ErrorOnlyForOrchestration ==
    /\ (epc = "resolve" /\ rpc = "done" /\ ~HasCycle(validators, runAfter)) =>
          resolveErr = NoErr
    /\ epc \in {"run", "wait"} => (retErr = NoErr /\ enabled # {} /\ resolveErr = NoErr)
    /\ epc = "returned" =>
          ((retErr # NoErr) <=> (enabled = {} \/ resolveErr # NoErr))

\* ExecuteAll returned a nil error with a failure, a skipped and a panic
\* among the results
C14_Witness ==
    /\ epc = "returned"
    /\ retErr = NoErr
    /\ \E i \in DOMAIN allResults : allResults[i].Reason = "CheckFailed"
    /\ \E i \in DOMAIN allResults : allResults[i].Status = StatusSkipped
    /\ \E i \in DOMAIN allResults : allResults[i].Reason = "ValidatorPanic"

\* C15 as stated: once the process has exited, its exit code is 0 exactly
\* when the aggregate status is success, and 1 when the aggregate status is
\* failure, when ExecuteAll returned an error and when the configuration
\* failed to load.
C15_ExitZeroIffAggregateSuccess ==
    mpc = "exited" =>
        /\ (exitCode = 0) <=> (aggOut.Status = StatusSuccess)
        /\ aggOut.Status = StatusFailure => exitCode = 1
        /\ retErr # NoErr => exitCode = 1
        /\ epc = "off" => exitCode = 1

\* C15, amended: the exit code is 0 exactly when the aggregate status is
\* success and the aggregate was marshalled and written to the results
\* path; it is 1 otherwise: on aggregate failure, on an error of
\* ExecuteAll, on a configuration error, and on a marshal or write failure
\* whatever the aggregate status.
C15_ExitCode ==
    /\ mpc # "exited" => exitCode = NoExit
    /\ mpc = "exited" =>
        /\ exitCode \in {0, 1}
        /\ (exitCode = 0) <=> (aggOut.Status = StatusSuccess /\ outFile.Status = StatusSuccess)
        /\ aggOut.Status = StatusFailure => exitCode = 1
        /\ retErr # NoErr => (exitCode = 1 /\ aggOut = NoAggregate /\ outFile = NoAggregate)
        /\ epc = "off" => (exitCode = 1 /\ aggOut = NoAggregate /\ outFile = NoAggregate)
        /\ outFile # NoAggregate => outFile = aggOut

\* the process exited with code 1 although the aggregate status is success:
\* the document could not be written
C15_Witness ==
    /\ mpc = "exited"
    /\ exitCode = 1
    /\ aggOut.Status = StatusSuccess
    /\ Len(allResults) >= 2

\* C16: when the token fired while the run was in progress, the process
\* exits with code 1.
C16_CancelledRunExitsOne ==
    (mpc = "exited" /\ cancelled = "during") => exitCode = 1

\* a transient upstream error: HTTP 429, 500 or 503
IsTransient(e) == e.text = "googleapi.Error" /\ e.code \in {429, 500, 503}

\* any other API error
IsOtherApi(e) == e.text = "googleapi.Error" /\ e.code \notin {429, 500, 503}

\* C17 as stated: retryWithBackoff calls the operation at most 5 times; a
\* success is the last call and makes it return nil; an API error other
\* than 429, 500, 503 is the last call and is returned as it is; and when
\* every call failed with 429, 500 or 503 there were exactly 5 calls and the
\* error returned is "max retries exceeded" wrapping the last one.
C17_BoundedRetryAsStated ==
    /\ Len(outcomes) <= 5
    /\ \A i \in DOMAIN outcomes :
         /\ outcomes[i] = NilErr =>
               (i = Len(outcomes) /\ rtpc = "done" /\ retryErr = NilErr)
         /\ IsOtherApi(outcomes[i]) =>
               (i = Len(outcomes) /\ rtpc = "done" /\ retryErr = outcomes[i])
    /\ (rtpc = "done" /\ retryErr = NilErr) =>
         (outcomes # <<>> /\ outcomes[Len(outcomes)] = NilErr)
    /\ ( /\ rtpc = "done"
         /\ \A i \in DOMAIN outcomes : IsTransient(outcomes[i]) ) =>
         /\ Len(outcomes) = 5
         /\ retryErr.text = "max retries exceeded"
         /\ retryErr.wraps = "googleapi.Error"

\* C17, amended: retryWithBackoff calls the operation at most 5 times; a success is
\* the last call and makes it return nil; an API error other than 429, 500,
\* 503 is the last call and is returned as it is; and when every call
\* failed with 429, 500 or 503 and the call was not ended by the token
\* during a wait, there were exactly 5 calls and the error returned is
\* "max retries exceeded" wrapping the last one.
C17_BoundedRetry ==
    /\ Len(outcomes) <= 5
    /\ \A i \in DOMAIN outcomes :
         /\ outcomes[i] = NilErr =>
               (i = Len(outcomes) /\ rtpc = "done" /\ retryErr = NilErr)
         /\ IsOtherApi(outcomes[i]) =>
               (i = Len(outcomes) /\ rtpc = "done" /\ retryErr = outcomes[i])
    /\ (rtpc = "done" /\ retryErr = NilErr) =>
         (outcomes # <<>> /\ outcomes[Len(outcomes)] = NilErr)
    /\ ( /\ rtpc = "done"
         /\ \A i \in DOMAIN outcomes : IsTransient(outcomes[i])
         /\ retryErr.text # "context cancelled during retry" ) =>
         /\ Len(outcomes) = 5
         /\ retryErr = [text |-> "max retries exceeded",
                        code |-> outcomes[5].code,
                        wraps |-> "googleapi.Error"]

\* five calls failed with transient errors, not all the same, and the call
\* returned "max retries exceeded"
C17_Witness ==
    /\ rtpc = "done"
    /\ Len(outcomes) = 5
    /\ \A i \in DOMAIN outcomes : IsTransient(outcomes[i])
    /\ outcomes[1].code # outcomes[5].code
    /\ retryErr.text = "max retries exceeded"

\* C18: when the token has fired and retryWithBackoff is in a wait between
\* two attempts, its next step is to return "context cancelled during
\* retry" wrapping the token's state (cancelled or deadline exceeded),
\* without another call of the operation; and after the return the
\* operation is not called again.
C18_AbortOnCancel ==
    [][ /\ (rtpc = "wait" /\ ctxErr # NilErr) =>
             /\ rtpc' = "done"
             /\ ctxErr.text \in {"context canceled", "context deadline exceeded"}
             /\ retryErr' = [text |-> "context cancelled during retry",
                             code |-> 0,
                             wraps |-> ctxErr.text]
             /\ outcomes' = outcomes
        /\ rtpc = "done" => (rtpc' = "done" /\ outcomes' = outcomes) ]_vars

\* the deadline passed during the wait after the second attempt and the
\* call returned after two calls of the operation
C18_Witness ==
    /\ rtpc = "done"
    /\ retryErr.text = "context cancelled during retry"
    /\ retryErr.wraps = "context deadline exceeded"
    /\ Len(outcomes) = 2
    /\ Len(waits) = 2

\* C19: the i-th wait, which precedes attempt i + 1, lasts
\* min(100 ms * 2^(i - 1), 30 s).
C19_WaitSchedule ==
    \A i \in DOMAIN waits :
        waits[i] = IF 100 * 2^(i - 1) < 30000 THEN 100 * 2^(i - 1) ELSE 30000

\* the run_after names of v that are validators of the input
KnownDeps(v) == { d \in Range(runAfter[v]) : d \in validators }

\* the level of the group of the plan that lists a
LevelOf(a) == groups[CHOOSE g \in GroupsOf(a) : TRUE].Level

MaxOf(S) == CHOOSE m \in S : \A x \in S : x <= m

\* C20: a run_after name that is not a validator of the input never causes
\* an error (an error names an edge between two input validators, and there
\* is none when the input validators have no cycle among themselves), and in
\* the plan every validator is in exactly one group, of level 0 when none
\* of its run_after names is an input validator, else of level 1 + the
\* maximum level of those that are.
C20_UnknownNameDropped ==
    rpc = "done" =>
        /\ resolveErr # NoErr =>
              (resolveErr[1] \in validators /\ resolveErr[2] \in validators)
        /\ ~HasCycle(validators, runAfter) => resolveErr = NoErr
        /\ resolveErr = NoErr =>
              \A v \in validators :
                  /\ Cardinality(GroupsOf(v)) = 1
                  /\ LevelOf(v) = IF KnownDeps(v) = {} THEN 0
                                  ELSE 1 + MaxOf({ LevelOf(d) : d \in KnownDeps(v) })

\* a plan was returned where one validator names only an unknown validator
\* and is at level 0, and another names the same unknown validator and the
\* first one and is at level 1
C20_Witness ==
    /\ rpc = "done"
    /\ resolveErr = NoErr
    /\ \E v \in validators, u \in validators, x \in Names \ validators :
         /\ u # v
         /\ Range(runAfter[v]) = {x}
         /\ Range(runAfter[u]) = {x, v}
         /\ LevelOf(v) = 0
         /\ LevelOf(u) = 1

\* C21: in every group of a plan ResolveExecutionGroups returned, the
\* validators are listed in strictly ascending order of name.
C21_GroupsSortedByName ==
    (rpc = "done" /\ resolveErr = NoErr) =>
        \A g \in DOMAIN groups :
            \A i \in 1..(Len(groups[g].Validators) - 1) :
                groups[g].Validators[i] < groups[g].Validators[i + 1]

\* a plan with a group of three validators was returned
C21_Witness ==
    /\ rpc = "done"
    /\ resolveErr = NoErr
    /\ \E g \in DOMAIN groups : Len(groups[g].Validators) >= 3

\* the length of the longest run_after chain below v among the input
\* validators (defined when they have no cycle)
RECURSIVE Depth(_)
Depth(v) ==
    IF KnownDeps(v) = {} THEN 0
    ELSE 1 + MaxOf({ Depth(d) : d \in KnownDeps(v) })

\* the elements of S in ascending order
Ascending(S) == CHOOSE p \in Perms(S) : \A i \in 1..(Len(p) - 1) : p[i] < p[i + 1]

\* C22: the plan returned is a function of the set of input validators and
\* their run_after lists alone: group g is the validators of depth g - 1
\* in ascending order of name, whatever the order in which the validators
\* were passed and the maps iterated.
C22_PlanIsDeterministic ==
    (rpc = "done" /\ resolveErr = NoErr) =>
        /\ Len(groups) = Cardinality({ Depth(v) : v \in validators })
        /\ \A g \in DOMAIN groups :
             groups[g] = [Level |-> g - 1,
                          Validators |-> Ascending({ v \in validators : Depth(v) = g - 1 })]

\* a plan of two groups, the first of two validators, was returned
C22_Witness ==
    /\ rpc = "done"
    /\ resolveErr = NoErr
    /\ Len(groups) = 2
    /\ Len(groups[1].Validators) = 2


\* C23: registering a name that the global registry already holds panics and
\* leaves the registry as it was; on a registry made by NewRegistry the same
\* call replaces the entry of that name and changes no other entry, so the
\* name still has exactly one validator; a name not yet present is added,
\* also a name that was registered before ClearRegistry emptied the registry
C23_DuplicateRegistration ==
    [][(/\ regCall' # NoCall
        /\ (regCall' # regCall \/ registry' # registry \/ regPanic' # regPanic)) =>
        LET name == regCall'[1]
            inst == regCall'[2]
        IN  IF name \in DOMAIN registry /\ regGlobal
            THEN /\ regPanic' # NoErr
                 /\ registry' = registry
            ELSE /\ regPanic' = NoErr
                 /\ DOMAIN registry' = DOMAIN registry \cup {name}
                 /\ registry'[name] = inst
                 /\ \A other \in DOMAIN registry \ {name} :
                      registry'[other] = registry[other]]_vars

C23_Witness ==
    /\ regGlobal
    /\ regPanic # NoErr
    /\ regCall[1] \in DOMAIN registry
    /\ registry[regCall[1]] # regCall[2]
    /\ Cardinality(DOMAIN registry) >= 2



\* C24: a fresh Context has constructed no client; the factory is called for
\* a kind only by an enabled validator that is inside Validate and inside
\* the accessor of that kind; a validator that is not enabled is never
\* inside an accessor
C24_ClientOnlyOnAccessorCall ==
    /\ \A k \in Kinds : constructs[k] = 0 /\ svc[k] = NilHandle
    /\ [][\A k \in Kinds :
            (constructs'[k] # constructs[k] \/ svc'[k] # svc[k]) =>
                \E v \in Callers \cap enabled :
                    /\ gpc[v] = "validating"
                    /\ cpc[v].pc = "inF"
                    /\ cpc[v].kind = k]_vars
    /\ [](\A v \in Callers \ enabled : cpc[v].pc = "idle")

C24_Witness ==
    /\ epc = "returned"
    /\ Callers \ enabled # {}
    /\ constructs["serviceUsage"] = 1
    /\ constructs["compute"] = 0



\* C25: the goroutine of a validator is started only once (from idle), calls
\* Validate only once (from started, never again after it), and only for a
\* validator that is enabled; a validator that is not enabled stays idle
C25_ValidateAtMostOnce ==
    [][\A v \in Names :
        /\ gpc'[v] = "idle" => gpc[v] = "idle"
        /\ gpc'[v] = "spawned" => gpc[v] \in {"idle", "spawned"}
        /\ gpc'[v] = "validating" =>
             /\ gpc[v] \in {"spawned", "validating"}
             /\ v \in enabled
             /\ v \notin DOMAIN ctxResults
             /\ v \notin panicked
        /\ v \notin enabled => gpc'[v] = "idle"]_vars

C25_Witness ==
    /\ epc = "returned"
    /\ retErr = NoErr
    /\ Cardinality(enabled) = 2
    /\ \A v \in enabled : gpc[v] = "done" /\ v \in DOMAIN ctxResults
    /\ \A v \in Names \ enabled : gpc[v] = "idle" /\ v \notin DOMAIN ctxResults



\* C26: a step of the run keeps every entry of Context.results as it is, and
\* an entry appears only at the store of the normal path or at the store of
\* the panic path of the validator it is named after
C26_ResultsAppendOnly ==
    [][/\ \A v \in DOMAIN ctxResults :
            v \in DOMAIN ctxResults' /\ ctxResults'[v] = ctxResults[v]
       /\ \A v \in DOMAIN ctxResults' \ DOMAIN ctxResults :
            \/ gpc[v] = "returned" /\ gpc'[v] = "locked" /\ v \notin panicked
            \/ gpc[v] = "recovered" /\ gpc'[v] = "plocked" /\ v \in panicked]_vars

C26_Witness ==
    /\ epc = "returned"
    /\ Cardinality(DOMAIN ctxResults) = 3
    /\ \E v \in DOMAIN ctxResults : v \in panicked
    /\ \E v \in DOMAIN ctxResults : v \notin panicked



\* C27: the result the executor stores, and its element of the document,
\* carry the metadata name of the validator, whatever name and duration the
\* validator put in the result it returned, and a duration that is not
\* negative; this holds for the result of the panic path as well
C27_NameAndDurationStamped ==
    /\ spc \in {"stored", "written"} =>
         /\ sstored.ValidatorName = smeta
         /\ sstored.Duration >= 0
    /\ spc = "written" =>
         /\ sdoc.validator_name = smeta
         /\ sdoc.duration_ns >= 0

C27_Witness ==
    /\ spc = "written"
    /\ sresult.ValidatorName \notin {0, smeta}
    /\ sresult.Duration < 0
    /\ sdoc.validator_name = smeta
    /\ sdoc.duration_ns > 0

\* C28: in the document, a result whose reason the validator left empty has
\* the reason "NoReasonProvided", and one whose message it left empty has
\* the message "No message provided"
C28_EmptyFieldsCoerced ==
    (spc = "written" /\ sresult.Status # "nil") =>
        /\ sresult.Reason = "" => sdoc.reason = "NoReasonProvided"
        /\ sresult.Message = "" => sdoc.message = "No message provided"



\* C29 as stated: a process that exited on a configuration error or on an
\* error returned by ExecuteAll exited with 1 and left the file at
\* results_path as it was; a process that exited after ExecuteAll returned
\* without error left the aggregate of the results in the file
C29_DocumentWheneverNoError ==
    mpc = "exited" =>
        /\ (epc = "off" \/ retErr # NoErr) =>
             /\ exitCode = 1
             /\ outFile = NoAggregate
        /\ (epc = "returned" /\ retErr = NoErr) =>
             /\ outFile # NoAggregate
             /\ outFile = Aggregate(allResults)

\* C29, amended: a process that exited on a configuration error or on an error
\* returned by ExecuteAll exited with 1 and left the file at results_path as
\* it was; a process that exited after ExecuteAll returned without error,
\* and whose marshalling and WriteFile did not fail, left the aggregate of
\* the results in the file, whether the aggregate is a failure or a success;
\* one whose marshalling or WriteFile failed exited with 1 and no document
C29_DocumentWrittenOrNot ==
    mpc = "exited" =>
        /\ (epc = "off" \/ retErr # NoErr) =>
             /\ exitCode = 1
             /\ outFile = NoAggregate
             /\ reportErr = "none"
        /\ (epc = "returned" /\ retErr = NoErr /\ reportErr = "none") =>
             /\ outFile # NoAggregate
             /\ outFile = Aggregate(allResults)
             /\ outFile.Status \in {StatusSuccess, StatusFailure}
        /\ (epc = "returned" /\ retErr = NoErr /\ reportErr # "none") =>
             /\ exitCode = 1
             /\ outFile = NoAggregate

C29_Witness ==
    /\ mpc = "exited"
    /\ epc = "returned"
    /\ retErr = NoErr
    /\ reportErr = "none"
    /\ exitCode = 1
    /\ outFile # NoAggregate
    /\ outFile.Status = StatusFailure



\* C30: while executeGroup waits for a group, every validator of the group
\* has its goroutine, and a goroutine that has not called Validate yet can
\* call it now, whatever its siblings are doing
C30_GroupStartsTogether ==
    /\ epc = "wait" =>
         \A i \in DOMAIN groups[gi].Validators : gpc[groups[gi].Validators[i]] # "idle"
    /\ \A v \in Names : gpc[v] = "spawned" => ENABLED CallValidate(v)

C30_Witness ==
    /\ epc = "wait"
    /\ \E v \in Names, w \in Names :
         /\ v < w
         /\ {v, w} \subseteq Range(groups[gi].Validators)
         /\ gpc[v] = "validating"
         /\ gpc[w] = "validating"



\* C31: with a token that never fires, a call whose operation failed every
\* time with an error that is not a cloud API error made exactly 5 attempts
\* and returned "max retries exceeded" wrapping that error; as long as the
\* attempts are not used up such a failure is followed by a wait
C31_GenericErrorRetried ==
    (ctxErr = NilErr /\ Len(outcomes) >= 1 /\
     \A i \in DOMAIN outcomes : outcomes[i] = NetErr) =>
        /\ rtpc = "done" =>
             /\ Len(outcomes) = 5
             /\ retryErr.text = "max retries exceeded"
             /\ retryErr.wraps = "network error"
        /\ Len(outcomes) < 5 => rtpc \in {"wait", "attempt"}

C31_Witness ==
    /\ rtpc = "done"
    /\ ctxErr = NilErr
    /\ Len(outcomes) = 5
    /\ \A i \in DOMAIN outcomes : outcomes[i] = NetErr
    /\ retryErr.text = "max retries exceeded"



\* C32: every step that writes the entry of a validator in Context.results,
\* or the slot of a validator in the results of its group, is taken by the
\* goroutine that holds the executor's mutex
C32_PublishedUnderMutex ==
    [][\A v \in Names :
        /\ (v \in DOMAIN ctxResults' /\ v \notin DOMAIN ctxResults) =>
             (mu = v \/ mu' = v)
        /\ \A g \in DOMAIN slots : \A i \in DOMAIN slots[g] :
             (groups[g].Validators[i] = v /\ slots'[g][i] # slots[g][i]) =>
                (mu = v \/ mu' = v)]_vars



\* C33: the error of ResolveExecutionGroups names an edge x -> y where y is
\* listed in the run_after of x, x and y are validators of the input, and y
\* reaches x along edges between validators of the input, in whatever order
\* the validators are visited
C33_ErrorNamesCycleEdge ==
    (rpc = "done" /\ resolveErr # NoErr) =>
        LET x == resolveErr[1]
            y == resolveErr[2]
        IN  /\ x \in validators
            /\ y \in validators
            /\ y \in Range(runAfter[x])
            /\ x \in ReachFrom(Edges(validators, runAfter), {y})

\* an error for a cycle of three validators
C33_Witness ==
    /\ rpc = "done"
    /\ resolveErr # NoErr
    /\ Cardinality(validators) = 3
    /\ \A v \in validators : Len(runAfter[v]) = 1 /\ runAfter[v][1] # v
    /\ Cardinality({ runAfter[v][1] : v \in validators }) = 3



\* C36: a plan returned without error is a partition of the input: every
\* validator of the input is at exactly one position of exactly one group,
\* the groups hold validators of the input only, no group is empty, and the
\* g-th group has level g - 1
C36_PlanIsPartition ==
    (rpc = "done" /\ resolveErr = NoErr) =>
        /\ \A v \in validators :
             Cardinality({ p \in { <<g, i>> : g \in DOMAIN groups, i \in 1..NumValidators } :
                             /\ p[2] \in DOMAIN groups[p[1]].Validators
                             /\ groups[p[1]].Validators[p[2]] = v }) = 1
        /\ \A g \in DOMAIN groups :
             /\ Range(groups[g].Validators) \subseteq validators
             /\ Len(groups[g].Validators) >= 1
             /\ groups[g].Level = g - 1

\* a plan of two groups of which the first has one validator and the second
\* two, both running after the first
C36_Witness ==
    /\ rpc = "done"
    /\ resolveErr = NoErr
    /\ Cardinality(validators) = 3
    /\ Len(groups) = 2
    /\ Len(groups[1].Validators) = 1
    /\ Len(groups[2].Validators) = 2



\* the positions of the lookups that returned an error
FailedLookups == { i \in DOMAIN vqueries : ~vqueries[i].err.nil }

\* C34: when Validate has returned, the status is success exactly when the
\* handle was obtained and every required API was looked up and found
\* ENABLED; a lookup that returned an error is the last one made and the
\* result is a failure; when every lookup returned and some API is not
\* ENABLED the result is a failure with reason RequiredAPIsDisabled
C34_ApiEnabledResult ==
    vpc = "done" =>
        /\ vresult.Status \in {StatusSuccess, StatusFailure}
        /\ vresult.Status = StatusSuccess <=>
             /\ vhandle.handle # NilHandle
             /\ vhandle.err.nil
             /\ Len(vqueries) = Len(vapis)
             /\ \A i \in DOMAIN vqueries :
                  vqueries[i].err.nil /\ vqueries[i].state = "ENABLED"
        /\ \A i \in FailedLookups :
             /\ i = Len(vqueries)
             /\ vresult.Status = StatusFailure
             /\ vresult.Reason # "RequiredAPIsDisabled"
        /\ (vhandle.err.nil /\ FailedLookups = {} /\
            \E i \in DOMAIN vqueries : vqueries[i].state # "ENABLED") =>
             /\ Len(vqueries) = Len(vapis)
             /\ vresult.Status = StatusFailure
             /\ vresult.Reason = "RequiredAPIsDisabled"

\* the first API is enabled and the second is not
C34_Witness ==
    /\ vpc = "done"
    /\ Len(vapis) = 2
    /\ Len(vqueries) = 2
    /\ vqueries[1].state = "ENABLED"
    /\ vqueries[2].state = "DISABLED"
    /\ vresult.Reason = "RequiredAPIsDisabled"



\* C37: on the Context the entrypoint builds, no accessor call panics, and
\* every accessor call returns a handle or an error
C37_AccessorReachesFactory ==
    xbuilt = "main" =>
        \A i \in DOMAIN xcalls :
            /\ ~xcalls[i].panic
            /\ xcalls[i].handle # NilHandle \/ xcalls[i].err



\* C35: when every call of Validate returns or panics, ExecuteAll returns,
\* and then no goroutine it started is still running or waiting for the
\* mutex, and the mutex is free
C35_ExecuteAllReturns ==
    <>(/\ epc = "returned"
       /\ mu = NoHolder
       /\ \A v \in Names : gpc[v] \in {"idle", "done"})

\* a run of two groups returned; in its first group one validator panicked
\* and another returned
C35_Witness ==
    /\ epc = "returned"
    /\ retErr = NoErr
    /\ Len(groups) = 2
    /\ Len(allResults) = 3
    /\ \E v \in Range(groups[1].Validators) : v \in panicked
    /\ \E v \in Range(groups[1].Validators) : v \notin panicked



\* C38: the goroutine of a validator whose Validate returned nil recovers
\* and stores, in Context.results and in its slot, a failure of reason
\* ValidatorPanic, while ExecuteAll and the siblings are left as they are;
\* the list ExecuteAll returns then has no nil entry, has that failure for
\* the validator, and, unless StopOnFirstFailure is set, has a result for
\* every enabled validator
C38_NilResultIsPanic ==
    /\ [][\A v \in Names :
            (/\ gpc[v] = "recovered"
             /\ gres[v].Reason = "nil pointer dereference"
             /\ gpc'[v] # "recovered") =>
                /\ gpc'[v] = "plocked"
                /\ v \in DOMAIN ctxResults'
                /\ ctxResults'[v] = [ValidatorName |-> v, Status |-> StatusFailure,
                                     Reason |-> "ValidatorPanic"]
                /\ slots'[groupOf(v)][CHOOSE i \in DOMAIN groups[groupOf(v)].Validators :
                                        groups[groupOf(v)].Validators[i] = v] = ctxResults'[v]
                /\ epc' = epc
                /\ \A w \in Names \ {v} : gpc'[w] = gpc[w]]_vars
    /\ [](epc = "returned" /\ retErr = NoErr =>
            /\ \A i \in DOMAIN allResults :
                 /\ allResults[i] # NilResult
                 /\ allResults[i].ValidatorName \in panicked =>
                      /\ allResults[i].Status = StatusFailure
                      /\ allResults[i].Reason = "ValidatorPanic"
            /\ ~stopOnFirstFailure => Len(allResults) = Cardinality(enabled))

\* a validator of a group of two returned nil and its goroutine has stored
\* the ValidatorPanic failure in Context.results and in its slot, while
\* its sibling has finished with a result of its own
C38_Witness ==
    /\ epc = "wait"
    /\ \E v \in Names, w \in Names :
         /\ v # w
         /\ gpc[v] = "plocked"
         /\ gres[v].Reason = "nil pointer dereference"
         /\ gpc[w] = "done"
         /\ w \notin panicked
         /\ {v, w} \subseteq Members(gi)
         /\ SlotOf(v).Reason = "ValidatorPanic"
         /\ v \in DOMAIN ctxResults
         /\ ctxResults[v].Status = StatusFailure
         /\ SlotOf(w) # NilResult


\* the validators of the first j groups of the plan
FirstGroups(j) == UNION { Members(g) : g \in 1..j }

\* C39: the list ExecuteAll returns with a nil error has no nil entry and
\* holds exactly one result for each validator of the first j groups of
\* the plan and for no other, for some j >= 1; j is the number of groups
\* when StopOnFirstFailure is false or no returned result has status
\* failure
C39_ReturnedListIsGroupPrefix ==
    (epc = "returned" /\ retErr = NoErr) =>
        \E j \in 1..Len(groups) :
            /\ \A i \in DOMAIN allResults :
                 /\ allResults[i] # NilResult
                 /\ allResults[i].ValidatorName \in FirstGroups(j)
            /\ \A v \in FirstGroups(j) :
                 Cardinality({ i \in DOMAIN allResults :
                                 allResults[i].ValidatorName = v }) = 1
            /\ (\/ ~stopOnFirstFailure
                \/ \A i \in DOMAIN allResults : allResults[i].Status # StatusFailure)
               => j = Len(groups)

\* fail-fast cut a plan of two groups after the first: the returned list
\* holds the failing validator and its succeeding sibling, and nothing of
\* the second group
C39_Witness ==
    /\ epc = "returned"
    /\ retErr = NoErr
    /\ stopOnFirstFailure
    /\ Len(groups) = 2
    /\ Len(groups[1].Validators) = 2
    /\ Len(allResults) = 2
    /\ \E i \in DOMAIN allResults : allResults[i].Status = StatusFailure
    /\ \E i \in DOMAIN allResults : allResults[i].Status = StatusSuccess



\* C40: once the cancel token has fired, the executor starts no group: no
\* goroutine is spawned for a validator of a group that had not started,
\* and the list of results grows by no result of such a group
C40_NoGroupStartsAfterCancel ==
    [][cancelled # "no" =>
         /\ ~(epc = "run" /\ epc' = "wait")
         /\ \A v \in Names : gpc[v] = "idle" => gpc'[v] = "idle"]_vars


====
